---- MODULE Spec2Model ----
(***************************************************************************)
(* Cadastral ingestion core: the Field Mapper (mapFieldNames), the         *)
(* Geometry Normalizer (normalizeGeometry), the GeoJSON batch processor    *)
(* (processGeoJSON), the Shapefile Extractor (processShapefile) and the    *)
(* POST handler of src/app/api/cadastral-data/route.ts and                 *)
(* src/app/api/upload-cadastral-data/route.ts.                             *)
(*                                                                         *)
(* JavaScript values are tagged records [k |-> kind, v |-> payload].       *)
(* A string is a sequence of one-character strings, so that the regular    *)
(* expression, parseFloat, JSON.parse, Date and toLowerCase are computed   *)
(* on its characters.  A number m / 10^e is [neg, m, e] in lowest form.    *)
(* A property bag is the sequence of its <<key, value>> pairs in insertion *)
(* order (the order of Object.keys).                                       *)
(***************************************************************************)
EXTENDS Integers, Sequences, FiniteSets, TLC

VARIABLES
    pc,          \* position of the call under study
    props,       \* Field Mapper: the raw property bag given to mapFieldNames
    mapped,      \* Field Mapper: mapFieldNames(props)
    remapped,    \* Field Mapper: mapFieldNames(mapped)
    geometry,    \* Geometry Normalizer: the argument of normalizeGeometry
    normalized,  \* Geometry Normalizer: the value returned
    renormalized,\* Geometry Normalizer: normalizeGeometry(normalized)
    coordSystem, \* Geometry Normalizer: the coordinate system it detected
    geoJson,     \* batch: the parsed upload given to processGeoJSON
    route,       \* batch: the route file whose processGeoJSON runs
    features,    \* batch: geoJson.features || [geoJson]
    i,           \* batch: loop index of processGeoJSON
    now,         \* batch: the last value Date.now() returned
    success,     \* batch: records pushed so far
    errors,      \* batch: error entries pushed so far
    escaped,     \* batch: TRUE when an exception left processGeoJSON
    file,        \* request: the uploaded file of the POST handler, or null
    calls,       \* request: the storage calls issued so far, with outcomes
    recordIdx,   \* request: number of records the insert loop has finished
    imported,    \* request: the counter imported
    insertErrors,\* request: the list insertErrors
    response,    \* request: the JSON response of the POST handler
    requests     \* concurrent requests: the loop state of each processor

vars == <<pc, props, mapped, remapped, geometry, normalized, renormalized,
          coordSystem, geoJson, route, features, i, now, success, errors,
          escaped, file, calls, recordIdx, imported, insertErrors,
          response, requests>>

mapperVars == <<props, mapped, remapped>>
geometryVars == <<geometry, normalized, renormalized, coordSystem>>
batchVars == <<geoJson, route, features, i, now, success, errors, escaped>>
postVars == <<file, calls, recordIdx, imported, insertErrors, response>>
concurrentVars == <<requests>>

-----------------------------------------------------------------------------
(* JavaScript values *)

Null == [k |-> "null", v |-> 0]
Undefined == [k |-> "undefined", v |-> 0]
NaN == [k |-> "nan", v |-> 0]
Str(s) == [k |-> "str", v |-> s]
Bool(b) == [k |-> "bool", v |-> b]
Arr(a) == [k |-> "arr", v |-> a]
Obj(o) == [k |-> "obj", v |-> o]
Geom(g) == [k |-> "geom", v |-> g]

RECURSIVE Lowest(_, _)
Lowest(m, e) ==
    IF e > 0 /\ m % 10 = 0 THEN Lowest(m \div 10, e - 1) ELSE <<m, e>>

\* the number (-1)^neg * m / 10^e; -0 and 0 are the same value under ===
Num(neg, m, e) ==
    LET l == Lowest(m, e)
    IN [k |-> "num", v |-> [neg |-> neg /\ l[1] # 0, m |-> l[1], e |-> l[2]]]

IntNum(n) == IF n < 0 THEN Num(TRUE, -n, 0) ELSE Num(FALSE, n, 0)

\* ToBoolean
Truthy(val) ==
    CASE val.k = "null" -> FALSE
      [] val.k = "undefined" -> FALSE
      [] val.k = "nan" -> FALSE
      [] val.k = "str" -> Len(val.v) > 0
      [] val.k = "num" -> val.v.m # 0
      [] val.k = "bool" -> val.v
      [] OTHER -> TRUE

\* a || b
Or(a, b) == IF Truthy(a) THEN a ELSE b

\* typeof value === 'number'
IsNumber(val) == val.k \in {"num", "nan"}

-----------------------------------------------------------------------------
(* Characters and digits *)

Digits == {"0", "1", "2", "3", "4", "5", "6", "7", "8", "9"}

DigitVal(c) ==
    CASE c = "0" -> 0 [] c = "1" -> 1 [] c = "2" -> 2 [] c = "3" -> 3
      [] c = "4" -> 4 [] c = "5" -> 5 [] c = "6" -> 6 [] c = "7" -> 7
      [] c = "8" -> 8 [] c = "9" -> 9

DigitChar(d) == <<"0", "1", "2", "3", "4", "5", "6", "7", "8", "9">>[d + 1]

\* the character at position j, "" past the end
CharAt(s, j) == IF j \in 1..Len(s) THEN s[j] ELSE ""

\* number of consecutive digits of s from position j
RECURSIVE DigitRun(_, _)
DigitRun(s, j) ==
    IF CharAt(s, j) \in Digits THEN 1 + DigitRun(s, j + 1) ELSE 0

\* value of the n digits of s from position j
RECURSIVE DigitsValue(_, _, _)
DigitsValue(s, j, n) ==
    IF n = 0 THEN 0
    ELSE DigitsValue(s, j, n - 1) * 10 + DigitVal(s[j + n - 1])

RECURSIVE Pow10(_)
Pow10(n) == IF n = 0 THEN 1 ELSE 10 * Pow10(n - 1)

\* decimal digits of a natural number, without padding
RECURSIVE IntToChars(_)
IntToChars(n) ==
    IF n < 10 THEN <<DigitChar(n)>>
    ELSE Append(IntToChars(n \div 10), DigitChar(n % 10))

\* String(n).padStart(w, '0')
RECURSIVE PadStart(_, _)
PadStart(s, w) == IF Len(s) >= w THEN s ELSE PadStart(<<"0">> \o s, w)

-----------------------------------------------------------------------------
(* value.replace(/[^\d.-]/g, '') and parseFloat *)

StripNonNumeric(s) == SelectSeq(s, LAMBDA c : c \in Digits \cup {".", "-"})

\* parseFloat on a string of digits, dots and signs (what StripNonNumeric
\* leaves): the longest prefix [+-]? (digits [. digits?] | . digits), NaN
\* when there is none.
parseFloat(s) ==
    LET signed == CharAt(s, 1) \in {"-", "+"}
        start == IF signed THEN 2 ELSE 1
        ni == DigitRun(s, start)
        dot == CharAt(s, start + ni) = "."
        nf == IF dot THEN DigitRun(s, start + ni + 1) ELSE 0
    IN  IF ni = 0 /\ nf = 0 THEN NaN
        ELSE Num(CharAt(s, 1) = "-",
                 DigitsValue(s, start, ni) * Pow10(nf)
                     + DigitsValue(s, start + ni + 1, nf),
                 nf)

-----------------------------------------------------------------------------
(* JSON.parse: null, true, false, numbers without exponent, strings        *)
(* without escapes, arrays, and the empty object.  A parse returns         *)
(* [ok, val, next]; ok = FALSE is the SyntaxError JSON.parse throws.       *)

JSONFail == [ok |-> FALSE, val |-> Null, next |-> 0]
JSONOk(val, next) == [ok |-> TRUE, val |-> val, next |-> next]

RECURSIVE SkipWs(_, _)
SkipWs(s, j) == IF CharAt(s, j) = " " THEN SkipWs(s, j + 1) ELSE j

MatchAt(s, j, lit) ==
    /\ j + Len(lit) - 1 <= Len(s)
    /\ SubSeq(s, j, j + Len(lit) - 1) = lit

\* position of the next double quote at or after j, 0 when there is none
RECURSIVE FindQuote(_, _)
FindQuote(s, j) ==
    IF j > Len(s) THEN 0
    ELSE IF s[j] = "\"" THEN j
    ELSE FindQuote(s, j + 1)

JSONNumber(s, j) ==
    LET neg == CharAt(s, j) = "-"
        start == IF neg THEN j + 1 ELSE j
        run == DigitRun(s, start)
        ni == IF CharAt(s, start) = "0" THEN 1 ELSE run
        dot == CharAt(s, start + ni) = "."
        nf == IF dot THEN DigitRun(s, start + ni + 1) ELSE 0
    IN  IF ni = 0 \/ (dot /\ nf = 0) THEN JSONFail
        ELSE JSONOk(Num(neg,
                        DigitsValue(s, start, ni) * Pow10(nf)
                            + DigitsValue(s, start + ni + 1, nf),
                        nf),
                    IF dot THEN start + ni + 1 + nf ELSE start + ni)

JSONString(s, j) ==
    LET q == FindQuote(s, j + 1)
    IN  IF q = 0 \/ \E n \in (j + 1)..(q - 1) : s[n] = "\\" THEN JSONFail
        ELSE JSONOk(Str(SubSeq(s, j + 1, q - 1)), q + 1)

RECURSIVE JSONValue(_, _)
RECURSIVE JSONElements(_, _, _)

JSONValue(s, j0) ==
    LET j == SkipWs(s, j0)
        c == CharAt(s, j)
    IN  CASE MatchAt(s, j, <<"n", "u", "l", "l">>) -> JSONOk(Null, j + 4)
          [] MatchAt(s, j, <<"t", "r", "u", "e">>) -> JSONOk(Bool(TRUE), j + 4)
          [] MatchAt(s, j, <<"f", "a", "l", "s", "e">>) ->
                 JSONOk(Bool(FALSE), j + 5)
          [] c = "\"" -> JSONString(s, j)
          [] c = "-" \/ c \in Digits -> JSONNumber(s, j)
          [] c = "[" ->
                 IF CharAt(s, SkipWs(s, j + 1)) = "]"
                 THEN JSONOk(Arr(<<>>), SkipWs(s, j + 1) + 1)
                 ELSE JSONElements(s, j + 1, <<>>)
          [] c = "{" ->
                 IF CharAt(s, SkipWs(s, j + 1)) = "}"
                 THEN JSONOk(Obj(<<>>), SkipWs(s, j + 1) + 1)
                 ELSE JSONFail
          [] OTHER -> JSONFail

JSONElements(s, j, acc) ==
    LET r == JSONValue(s, j)
        n == SkipWs(s, r.next)
    IN  IF ~r.ok THEN JSONFail
        ELSE IF CharAt(s, n) = "," THEN JSONElements(s, n + 1, Append(acc, r.val))
        ELSE IF CharAt(s, n) = "]" THEN JSONOk(Arr(Append(acc, r.val)), n + 1)
        ELSE JSONFail

\* JSON.parse(s): ok = FALSE when it throws
JSONParse(s) ==
    LET r == JSONValue(s, 1)
    IN  IF r.ok /\ SkipWs(s, r.next) = Len(s) + 1 THEN r ELSE JSONFail


-----------------------------------------------------------------------------
(* new Date(value) and toISOString().split('T')[0].  A Date is             *)
(* [valid, day, ms]: whole days since 1970-01-01 UTC and milliseconds in   *)
(* the day.  Date.parse is modelled on the strings whose parse ECMAScript  *)
(* fixes: the date-only form YYYY-MM-DD (midnight UTC) and strings without *)
(* any digit (Invalid Date).                                               *)

MsPerDay == 86400000

InvalidDate == [valid |-> FALSE, day |-> 0, ms |-> 0]

IsLeap(y) == (y % 4 = 0 /\ y % 100 # 0) \/ y % 400 = 0

DaysInMonth(y, m) ==
    IF m = 2 THEN (IF IsLeap(y) THEN 29 ELSE 28)
    ELSE IF m \in {4, 6, 9, 11} THEN 30 ELSE 31

\* days since the epoch of the civil date y-m-d
DaysFromCivil(y0, m, d) ==
    LET y == IF m <= 2 THEN y0 - 1 ELSE y0
        era == y \div 400
        yoe == y - era * 400
        mp == IF m > 2 THEN m - 3 ELSE m + 9
        doy == (153 * mp + 2) \div 5 + d - 1
        doe == yoe * 365 + yoe \div 4 - yoe \div 100 + doy
    IN  era * 146097 + doe - 719468

\* the civil date <<y, m, d>> of a day count
CivilFromDays(z0) ==
    LET z == z0 + 719468
        era == z \div 146097
        doe == z - era * 146097
        yoe == (doe - doe \div 1460 + doe \div 36524 - doe \div 146096) \div 365
        doy == doe - (365 * yoe + yoe \div 4 - yoe \div 100)
        mp == (5 * doy + 2) \div 153
        d == doy - (153 * mp + 2) \div 5 + 1
        m == IF mp < 10 THEN mp + 3 ELSE mp - 9
    IN  <<yoe + era * 400 + (IF m <= 2 THEN 1 ELSE 0), m, d>>

\* YYYY-MM-DD: four digits, dash, two digits, dash, two digits
IsDateShape(s) ==
    /\ Len(s) = 10
    /\ \A n \in {1, 2, 3, 4, 6, 7, 9, 10} : s[n] \in Digits
    /\ s[5] = "-" /\ s[8] = "-"

DateParse(s) ==
    IF ~IsDateShape(s) THEN InvalidDate
    ELSE LET y == DigitsValue(s, 1, 4)
             m == DigitsValue(s, 6, 2)
             d == DigitsValue(s, 9, 2)
         IN  IF m \in 1..12 /\ d \in 1..DaysInMonth(y, m)
             THEN [valid |-> TRUE, day |-> DaysFromCivil(y, m, d), ms |-> 0]
             ELSE InvalidDate

\* Array.prototype.toString of an array of strings and nulls: join(',')
RECURSIVE Join(_)
Join(a) ==
    IF Len(a) = 0 THEN <<>>
    ELSE LET h == IF Head(a).k = "str" THEN Head(a).v ELSE <<>>
         IN  IF Len(a) = 1 THEN h ELSE h \o <<",">> \o Join(Tail(a))

\* new Date(value): a string is parsed, an array or object goes through
\* its string form, a number or boolean is a time value in milliseconds
NewDate(value) ==
    CASE value.k = "str" -> DateParse(value.v)
      [] value.k = "arr" -> DateParse(Join(value.v))
      [] value.k = "num" ->
             IF value.v.e # 0 THEN InvalidDate
             ELSE LET t == IF value.v.neg THEN -value.v.m ELSE value.v.m
                  IN  [valid |-> TRUE, day |-> t \div MsPerDay,
                       ms |-> t % MsPerDay]
      [] value.k = "bool" ->
             [valid |-> TRUE, day |-> 0, ms |-> IF value.v THEN 1 ELSE 0]
      [] value.k = "null" -> [valid |-> TRUE, day |-> 0, ms |-> 0]
      [] OTHER -> InvalidDate

\* Date.prototype.toISOString
toISOString(d) ==
    LET c == CivilFromDays(d.day)
        year == IF c[1] \in 0..9999 THEN PadStart(IntToChars(c[1]), 4)
                ELSE IF c[1] < 0 THEN <<"-">> \o PadStart(IntToChars(-c[1]), 6)
                ELSE <<"+">> \o PadStart(IntToChars(c[1]), 6)
    IN  year \o <<"-">> \o PadStart(IntToChars(c[2]), 2)
             \o <<"-">> \o PadStart(IntToChars(c[3]), 2)
             \o <<"T">> \o PadStart(IntToChars(d.ms \div 3600000), 2)
             \o <<":">> \o PadStart(IntToChars((d.ms \div 60000) % 60), 2)
             \o <<":">> \o PadStart(IntToChars((d.ms \div 1000) % 60), 2)
             \o <<".">> \o PadStart(IntToChars(d.ms % 1000), 3)
             \o <<"Z">>

\* s.split('T')[0]
RECURSIVE BeforeT(_)
BeforeT(s) ==
    IF Len(s) = 0 \/ Head(s) = "T" THEN <<>>
    ELSE <<Head(s)>> \o BeforeT(Tail(s))


-----------------------------------------------------------------------------
(* Objects: sequences of <<key, value>> pairs in insertion order *)

HasKey(o, key) == \E n \in 1..Len(o) : o[n][1] = key

\* o[key], undefined when the key is absent
Get(o, key) ==
    IF HasKey(o, key)
    THEN o[CHOOSE n \in 1..Len(o) : o[n][1] = key][2]
    ELSE Undefined

\* o[key] = val: an existing key keeps its place, a new key goes last
Put(o, key, val) ==
    IF HasKey(o, key)
    THEN [n \in 1..Len(o) |-> IF o[n][1] = key THEN <<key, val>> ELSE o[n]]
    ELSE Append(o, <<key, val>>)

\* Object.keys(o)
Keys(o) == {o[n][1] : n \in 1..Len(o)}

\* a === b on the values of the model: same kind and same payload
StrictEq(a, b) == a.k = b.k /\ a.v = b.v

\* same keys with the same values, whatever the order of the keys
SameObject(a, b) ==
    /\ Keys(a) = Keys(b)
    /\ \A key \in Keys(a) : StrictEq(Get(a, key), Get(b, key))

-----------------------------------------------------------------------------
(* Field Mapper: mapFieldNames *)

fieldMap ==
    ("PROPINSI" :> "provinsi") @@
    ("PROVINSI" :> "provinsi") @@
    ("KABUPATEN" :> "kabupaten") @@
    ("KECAMATAN" :> "kecamatan") @@
    ("DESA" :> "desa") @@
    ("KELURAHAN" :> "desa") @@
    ("NIB" :> "nib") @@
    ("SU" :> "su") @@
    ("HAK" :> "hak") @@
    ("TIPEHAK" :> "tipe_hak") @@
    ("TIPE_HAK" :> "tipe_hak") @@
    ("LUASTERTUL" :> "luas_tertulis") @@
    ("LUAS_TERTUL" :> "luas_tertulis") @@
    ("LUAS_TERTULIS" :> "luas_tertulis") @@
    ("LUASPETA" :> "luas_peta") @@
    ("LUAS_PETA" :> "luas_peta") @@
    ("area_sqm" :> "luas_peta") @@
    ("SK" :> "sk") @@
    ("TANGGALSK" :> "tanggal_sk") @@
    ("TANGGAL_SK" :> "tanggal_sk") @@
    ("TGLTERBITH" :> "tanggal_terbit_hak") @@
    ("TANGGAL_TERBIT_HAK" :> "tanggal_terbit_hak") @@
    ("BERAKHIRHA" :> "berakhir_hak") @@
    ("BERAKHIR_HAK" :> "berakhir_hak") @@
    ("PEMILIK" :> "pemilik") @@
    ("owner_name" :> "pemilik") @@
    ("TIPEPEMILI" :> "tipe_pemilik") @@
    ("TIPE_PEMILIK" :> "tipe_pemilik") @@
    ("GUNATANAHK" :> "guna_tanah_klasifikasi") @@
    ("GUNA_TANAH_KLASIFIKASI" :> "guna_tanah_klasifikasi") @@
    ("GUNATANAHU" :> "guna_tanah_utama") @@
    ("GUNA_TANAH_UTAMA" :> "guna_tanah_utama") @@
    ("land_use" :> "penggunaan") @@
    ("PENGGUNAAN" :> "penggunaan") @@
    ("TERPETAKAN" :> "terpetakan") @@
    ("Kasus" :> "kasus") @@
    ("KASUS" :> "kasus") @@
    ("Pihak" :> "pihak_bersengketa") @@
    ("PIHAK_BERSENGKETA" :> "pihak_bersengketa") @@
    ("Solusi" :> "solusi") @@
    ("SOLUSI" :> "solusi") @@
    ("Hasil" :> "hasil") @@
    ("HASIL" :> "hasil") @@
    ("UPAYA_PENANGANAN" :> "upaya_penanganan") @@
    ("Keterangan" :> "keterangan") @@
    ("KETERANGAN" :> "keterangan") @@
    ("NoPeta" :> "no_peta") @@
    ("NO_PETA" :> "no_peta") @@
    ("Status" :> "status") @@
    ("STATUS" :> "status") @@
    ("status" :> "status")

\* key.toLowerCase() on the keys of the model that have an upper-case letter;
\* every other key of the model is its own lower-cased form
toLowerCase(key) ==
    CASE key = "AREA_SQM" -> "area_sqm"
      [] key = "Owner_Name" -> "owner_name"
      [] key = "PARCEL_ID" -> "parcel_id"
      [] key = "PIHAK" -> "pihak"
      [] key = "Blok" -> "blok"
      [] key = "BLOK" -> "blok"
      [] OTHER -> key

\* fieldMap is an object literal: fieldMap[key] also finds what the literal
\* inherits from Object.prototype, a function or an object, all truthy.
\* The entry gives the string such a value becomes as a property name.
ObjectPrototype ==
    ("constructor" :> "function Object() { [native code] }") @@
    ("toString" :> "function toString() { [native code] }") @@
    ("__proto__" :> "[object Object]")

\* const mappedKey = fieldMap[key] || key.toLowerCase(), as the property
\* name mapped[mappedKey] writes
mappedKeyOf(key) ==
    IF key \in DOMAIN fieldMap THEN fieldMap[key]
    ELSE IF key \in DOMAIN ObjectPrototype THEN ObjectPrototype[key]
    ELSE toLowerCase(key)

\* coercePihak with the catch block giving [] for every string
coercePihakDropsRaw(value) ==
    IF value.k = "str"
    THEN IF value.v = <<"[", "]">> \/ value.v = <<>> \/ value.v = <<"-">>
         THEN Arr(<<>>)
         ELSE LET r == JSONParse(value.v)
              IN  IF r.ok THEN r.val ELSE Arr(<<>>)
    ELSE IF value.k = "arr" THEN value
    ELSE Arr(<<>>)

\* lines 945-958: the dispute-parties special case
coercePihak(value) ==
    IF value.k = "str"
    THEN IF value.v = <<"[", "]">> \/ value.v = <<>> \/ value.v = <<"-">>
         THEN Arr(<<>>)
         ELSE LET r == JSONParse(value.v)
              IN  IF r.ok THEN r.val
                  ELSE IF Truthy(value) THEN Arr(<<value>>) ELSE Arr(<<>>)
    ELSE IF value.k = "arr" THEN value
    ELSE Arr(<<>>)

\* lines 960-966: numeric strings to numbers for the area fields
coerceArea(value) ==
    IF Truthy(value) /\ value.k = "str"
    THEN LET numValue == parseFloat(StripNonNumeric(value.v))
         IN  IF numValue.k = "nan" THEN Null ELSE numValue
    ELSE value

\* the RangeError toISOString raises on an invalid Date
RangeError == [k |-> "throw", v |-> 0]

\* the date fields without the isNaN(dateValue.getTime()) test
coerceDateUnguarded(value) ==
    IF Truthy(value)
    THEN IF ~StrictEq(value, Str(<<"-">>)) /\ ~StrictEq(value, Str(<<>>))
         THEN LET dateValue == NewDate(value)
              IN  IF ~dateValue.valid THEN RangeError
                  ELSE Str(BeforeT(toISOString(dateValue)))
         ELSE Null
    ELSE value

\* lines 968-976: the date fields
coerceDate(value) ==
    IF Truthy(value)
    THEN IF ~StrictEq(value, Str(<<"-">>)) /\ ~StrictEq(value, Str(<<>>))
         THEN LET dateValue == NewDate(value)
              IN  IF ~dateValue.valid THEN Null
                  ELSE Str(BeforeT(toISOString(dateValue)))
         ELSE Null
    ELSE value

\* lines 978-981: clean empty values
cleanEmpty(value) ==
    IF \/ StrictEq(value, Str(<<>>))
       \/ StrictEq(value, Str(<<"-">>))
       \/ value.k = "null"
       \/ value.k = "undefined"
    THEN Null
    ELSE value

AreaFields == {"luas_tertulis", "luas_peta"}
DateFields == {"tanggal_sk", "tanggal_terbit_hak", "berakhir_hak"}

\* the value stored under mappedKey for the raw value (one forEach callback)
coerce(mappedKey, value) ==
    LET v1 == IF mappedKey = "pihak_bersengketa" THEN coercePihak(value)
              ELSE value
        v2 == IF mappedKey \in AreaFields THEN coerceArea(v1) ELSE v1
        v3 == IF mappedKey \in DateFields THEN coerceDate(v2) ELSE v2
    IN  cleanEmpty(v3)

\* a mapping in which an empty value does not replace the value an earlier
\* key gave the field
RECURSIVE mapFirstKeepsValue(_, _)
mapFirstKeepsValue(properties, n) ==
    IF n = 0 THEN <<>>
    ELSE LET key == properties[n][1]
             mappedKey == mappedKeyOf(key)
             before == mapFirstKeepsValue(properties, n - 1)
             value == coerce(mappedKey, properties[n][2])
         IN  IF value = Null /\ HasKey(before, mappedKey) THEN before
             ELSE Put(before, mappedKey, value)

\* mapped after the callback ran on the first n keys of properties
RECURSIVE mapFirst(_, _)
mapFirst(properties, n) ==
    IF n = 0 THEN <<>>
    ELSE LET key == properties[n][1]
             mappedKey == mappedKeyOf(key)
         IN  Put(mapFirst(properties, n - 1), mappedKey,
                 coerce(mappedKey, properties[n][2]))

mapFieldNames(properties) == mapFirst(properties, Len(properties))

\* TRUE when a callback raised an exception, which leaves mapFieldNames
MapperThrew(bag) == \E n \in 1..Len(bag) : bag[n][2].k = "throw"

\* the argument after the call: the callback copies properties[key] into
\* the local value and writes to the local and to mapped only
argumentAfter(properties) == properties


-----------------------------------------------------------------------------
(* Geometry Normalizer: normalizeGeometry.  A geometry is                  *)
(* Geom([type, coordinates]); coordinates is a JavaScript value, nested    *)
(* arrays of numbers when well formed.  A call returns [threw, val, sys]:  *)
(* threw = TRUE is the TypeError an access on undefined raises, sys the    *)
(* coordinate system detected ("none" when the code returns before).       *)
(* A converted coordinate is kept as the exact quotient                    *)
(* base + num / (den[1] * den[2] ...), kind "quot".                        *)

Threw == [threw |-> TRUE, val |-> Undefined, sys |-> "none"]
Returned(val, sys) == [threw |-> FALSE, val |-> val, sys |-> sys]

\* a[n] for a zero-based index n: undefined past the end or on a non-array
Index(a, n) ==
    IF a.k = "arr" /\ n < Len(a.v) THEN a.v[n + 1]
    ELSE IF a.k = "str" /\ n < Len(a.v) THEN Str(<<a.v[n + 1]>>)
    ELSE Undefined

\* values on which a[n] raises a TypeError
NoIndex(a) == a.k \in {"null", "undefined"}

\* the numbers 1000, 99, 500000, 0.9996 and 111319.9 of lines 1004-1064
ProjectedThreshold == Num(FALSE, 1000, 0)
centralMeridian == Num(FALSE, 99, 0)
falseEasting == Num(FALSE, 500000, 0)
scaleFactor == Num(FALSE, 9996, 4)
MetersPerDegree == Num(FALSE, 1113199, 1)

\* the signed integer a * 10^e of a number a with a.e <= e
Scaled(a, e) == (IF a.v.neg THEN -1 ELSE 1) * a.v.m * Pow10(e - a.v.e)

MaxOf(a, b) == IF a >= b THEN a ELSE b

\* a - b
NumSub(a, b) ==
    LET e == MaxOf(a.v.e, b.v.e)
        d == Scaled(a, e) - Scaled(b, e)
    IN  IF d < 0 THEN Num(TRUE, -d, e) ELSE Num(FALSE, d, e)

\* Math.abs(a) > b; false when a is not a number
AbsGreater(a, b) ==
    /\ a.k = "num"
    /\ LET e == MaxOf(a.v.e, b.v.e)
       IN  a.v.m * Pow10(e - a.v.e) > Scaled(b, e)

\* base + num / (product of den), exact; a zero numerator gives base
Quot(base, num, den) ==
    IF num.k # "num" THEN NaN
    ELSE IF num.v.m = 0 THEN base
    ELSE [k |-> "quot", v |-> [base |-> base.v, num |-> num.v, den |-> den]]

\* Math.abs(a) >= b
AbsAtLeast(a, b) ==
    /\ a.k = "num"
    /\ LET e == MaxOf(a.v.e, b.v.e)
       IN  a.v.m * Pow10(e - a.v.e) >= Scaled(b, e)

\* detectCoordinateSystem with >= 1000 in place of > 1000
detectCoordinateSystemInclusive(coords) ==
    LET firstCoord == Index(coords, 0)
    IN  IF ~Truthy(firstCoord) THEN Returned(Undefined, "geographic")
        ELSE IF firstCoord.k # "arr" THEN Threw
        ELSE IF Len(firstCoord.v) < 2 THEN Returned(Undefined, "geographic")
        ELSE IF \/ AbsAtLeast(Index(firstCoord, 0), ProjectedThreshold)
                \/ AbsAtLeast(Index(firstCoord, 1), ProjectedThreshold)
             THEN Returned(Undefined, "utm")
        ELSE Returned(Undefined, "geographic")

\* lines 996-1009
detectCoordinateSystem(coords) ==
    LET firstCoord == Index(coords, 0)
    IN  IF ~Truthy(firstCoord) THEN Returned(Undefined, "geographic")
        ELSE IF firstCoord.k # "arr" THEN Threw
        ELSE IF Len(firstCoord.v) < 2 THEN Returned(Undefined, "geographic")
        ELSE IF \/ AbsGreater(Index(firstCoord, 0), ProjectedThreshold)
                \/ AbsGreater(Index(firstCoord, 1), ProjectedThreshold)
             THEN Returned(Undefined, "utm")
        ELSE Returned(Undefined, "geographic")

\* lines 1012-1023
RECURSIVE extractCoordPairs(_)
extractCoordPairs(coords) ==
    IF NoIndex(coords) THEN Threw
    ELSE IF Index(coords, 0).k = "arr"
         THEN IF Index(Index(coords, 0), 0).k = "arr"
              THEN extractCoordPairs(Index(coords, 0))
              ELSE Returned(coords, "none")
         ELSE Returned(Arr(<<coords>>), "none")

\* a conversion that takes the easting from the zone origin, without the
\* false easting
convertPairNoFalseEasting(pair) ==
    LET easting == Index(pair, 0)
        northing == Index(pair, 1)
        longitude == Quot(centralMeridian, easting,
                          <<scaleFactor.v, MetersPerDegree.v>>)
        latitude == Quot(Num(FALSE, 0, 0), northing, <<MetersPerDegree.v>>)
    IN  Arr(<<longitude, latitude>>)

\* lines 1054-1067: one [easting, northing] pair
convertPair(pair) ==
    LET easting == Index(pair, 0)
        northing == Index(pair, 1)
        x == IF easting.k = "num" THEN NumSub(easting, falseEasting) ELSE NaN
        longitude == Quot(centralMeridian, x, <<scaleFactor.v, MetersPerDegree.v>>)
        latitude == Quot(Num(FALSE, 0, 0), northing, <<MetersPerDegree.v>>)
    IN  Arr(<<longitude, latitude>>)

\* lines 1053-1068: coords.map(...)
convertUTMToGeographic(coords) ==
    Arr([n \in 1..Len(coords.v) |-> convertPair(coords.v[n])])

\* every ring is an array of arrays, so that no map or destructuring throws
RingsWellFormed(rings) ==
    /\ rings.k = "arr"
    /\ \A n \in 1..Len(rings.v) :
          /\ rings.v[n].k = "arr"
          /\ \A q \in 1..Len(rings.v[n].v) : rings.v[n].v[q].k = "arr"

\* rings.map(ring => convertUTMToGeographic(ring))
convertRings(rings) ==
    Arr([n \in 1..Len(rings.v) |-> convertUTMToGeographic(rings.v[n])])

\* an unsupported geometry type raising an error
otherGeometryTypeThrows(g) == Threw

\* an unsupported geometry type handed on as a MultiPolygon
otherGeometryTypeWrapped(g) ==
    Returned(Geom([type |-> "MultiPolygon",
                   coordinates |-> Arr(<<g.v.coordinates>>)]), "none")

\* lines 1031-1033: return geometry, as-is for other geometry types
otherGeometryType(g) == Returned(g, "none")

\* a geographic geometry returned as it is, whatever its type
geographicResultAsIs(g) == Returned(g, "geographic")

\* a geographic geometry wrapped into a MultiPolygon, whatever its type
geographicResultAlwaysWraps(g) ==
    Returned(Geom([type |-> "MultiPolygon",
                   coordinates |-> Arr(<<g.v.coordinates>>)]), "geographic")

\* lines 1037-1047: coordinates already geographic, only the type changes
geographicResult(g) ==
    IF g.v.type = "Polygon"
    THEN Returned(Geom([type |-> "MultiPolygon",
                        coordinates |-> Arr(<<g.v.coordinates>>)]),
                  "geographic")
    ELSE Returned(g, "geographic")

\* lines 990-1093
normalizeGeometry(g) ==
    IF g.k # "geom" THEN Returned(g, "none")
    ELSE IF ~Truthy(g.v.coordinates) THEN Returned(g, "none")
    ELSE IF g.v.type \notin {"Polygon", "MultiPolygon"} THEN otherGeometryType(g)
    ELSE
      LET first == Index(g.v.coordinates, 0)
          sample == IF g.v.type = "Polygon" THEN first ELSE Index(first, 0)
          coordPairs == IF g.v.type = "MultiPolygon" /\ NoIndex(first)
                        THEN Threw
                        ELSE extractCoordPairs(sample)
          coordSys == IF coordPairs.threw THEN Threw
                      ELSE detectCoordinateSystem(coordPairs.val)
      IN  IF coordSys.threw THEN Threw
          ELSE IF coordSys.sys = "geographic"
          THEN geographicResult(g)
          ELSE IF g.v.type = "Polygon"
          THEN IF ~RingsWellFormed(g.v.coordinates) THEN Threw
               ELSE Returned(
                      Geom([type |-> "MultiPolygon",
                            coordinates |->
                                Arr(<<convertRings(g.v.coordinates)>>)]),
                      "utm")
          ELSE IF \/ g.v.coordinates.k # "arr"
                  \/ \E n \in 1..Len(g.v.coordinates.v) :
                        ~RingsWellFormed(g.v.coordinates.v[n])
               THEN Threw
               ELSE Returned(
                      Geom([type |-> g.v.type,
                            coordinates |->
                                Arr([n \in 1..Len(g.v.coordinates.v) |->
                                       convertRings(g.v.coordinates.v[n])])]),
                      "utm")

-----------------------------------------------------------------------------
(* Inputs of the Field Mapper *)

MaxAreaLen == 3
MaxJsonLen == 3

\* all strings over an alphabet of length at most n
StringsUpTo(alphabet, n) == UNION {[1..len -> alphabet] : len \in 0..n}

AreaAlphabet == {"2", "5", ".", "-", ",", "m"}
JsonAlphabet == {"[", "]", "\"", "A", "5", ",", "-"}

AreaExample == <<"1", ",", "4", "8", "7", ".", "5", " ", "m", "2">>
IsoExample == <<"2", "0", "2", "0", "-", "0", "1", "-", "1", "5">>

AreaValues ==
    {Str(s) : s \in StringsUpTo(AreaAlphabet, MaxAreaLen)}
        \cup {Str(AreaExample), Str(<<"2", "5", "0", "0">>), Str(<<"R", "p", " ", "1", ".", "2", "5", "0", ",", "7", "5">>)}

PihakValues ==
    {Str(s) : s \in StringsUpTo(JsonAlphabet, MaxJsonLen)}
        \cup {Str(<<"[", "\"", "A", "\"", ",", "\"", "B", "\"", "]">>), Str(<<"A", "h", "m", "a", "d">>), Str(<<"n", "u", "l", "l">>), Str(<<"{", "}">>),
              Str(<<"\"", "A", "h", "m", "a", "d", "\"">>), Str(<<"t", "r", "u", "e">>), Str(<<" ">>), Str(<<"[", "5", ",", " ", "5", "]">>)}

DateValues ==
    {Str(IsoExample), Str(<<"1", "9", "9", "9", "-", "1", "2", "-", "3", "1">>), Str(<<"2", "0", "2", "4", "-", "0", "2", "-", "2", "9">>),
     Str(<<"u", "n", "k", "n", "o", "w", "n">>), Str(<<"a", "b", "c">>), Str(<<"n", "/", "a">>),
     IntNum(1), IntNum(MsPerDay), IntNum(20 * MsPerDay),
     Arr(<<Str(IsoExample)>>)}

CommonValues ==
    {Null, Str(<<>>), Str(<<"-">>), Str(<<"x">>), IntNum(0), IntNum(5),
     Num(FALSE, 25, 1), Bool(TRUE), Bool(FALSE), Arr(<<>>),
     Arr(<<Str(<<"A">>)>>)}

AreaKeys == {"LUASPETA", "LUAS_TERTULIS", "area_sqm", "luas_peta", "AREA_SQM"}
DateKeys == {"TANGGAL_SK", "TGLTERBITH", "BERAKHIR_HAK", "tanggal_sk"}
PihakKeys == {"Pihak", "PIHAK_BERSENGKETA", "pihak_bersengketa"}
OtherKeys == {"PEMILIK", "owner_name", "Owner_Name", "NIB", "HAK",
              "parcel_id", "PARCEL_ID", "Status", "Blok", "BLOK", "blok",
              "constructor"}
PairKeys == {"LUASPETA", "area_sqm", "AREA_SQM", "TANGGAL_SK", "tanggal_sk",
             "Pihak", "PEMILIK", "owner_name", "Blok", "blok"}

\* one-key bags: every key with the values of its field and the common ones
SingleBags ==
    {<<<<key, val>>>> : key \in AreaKeys, val \in AreaValues \cup CommonValues}
        \cup {<<<<key, val>>>> : key \in DateKeys,
                                 val \in DateValues \cup CommonValues}
        \cup {<<<<key, val>>>> : key \in PihakKeys,
                                 val \in PihakValues \cup CommonValues}
        \cup {<<<<key, val>>>> : key \in OtherKeys, val \in CommonValues}

\* two-key bags, the two raw keys different
PairBags ==
    {<<<<k1, v1>>, <<k2, v2>>>> :
        <<k1, k2>> \in {kk \in PairKeys \X PairKeys : kk[1] # kk[2]},
        <<v1, v2>> \in CommonValues \X CommonValues}

PropertyBags == {<<>>} \cup SingleBags \cup PairBags


-----------------------------------------------------------------------------
(* Specification of the Field Mapper: mapFieldNames is called on a         *)
(* property bag, then on its own result.                                   *)

MapperIdle == /\ props = <<>> /\ mapped = <<>> /\ remapped = <<>>
GeometryIdle ==
    /\ geometry = Null /\ normalized = Null /\ renormalized = Null
    /\ coordSystem = "none"
BatchIdle ==
    /\ geoJson = Null /\ route = "none" /\ features = <<>> /\ i = 0 /\ now = 0
    /\ success = <<>> /\ errors = <<>> /\ escaped = FALSE

\* no response has been sent
NoResponse == [status |-> 0, success |-> FALSE, message |-> "none"]

PostIdle ==
    /\ file = Null /\ calls = <<>> /\ recordIdx = 0 /\ imported = 0
    /\ insertErrors = <<>> /\ response = NoResponse

\* no other request is running
ConcurrentIdle == requests = <<>>

InitMapper ==
    /\ pc = "start"
    /\ props \in PropertyBags
    /\ mapped = <<>>
    /\ remapped = <<>>
    /\ GeometryIdle
    /\ BatchIdle
    /\ PostIdle
    /\ ConcurrentIdle

Map ==
    /\ pc = "start"
    /\ mapped' = mapFieldNames(props)
    /\ props' = argumentAfter(props)
    /\ pc' = IF MapperThrew(mapped') THEN "threw" ELSE "mapped"
    /\ UNCHANGED <<remapped, geometryVars, batchVars, postVars,
                   concurrentVars>>

Remap ==
    /\ pc = "mapped"
    /\ remapped' = mapFieldNames(mapped)
    /\ pc' = "remapped"
    /\ UNCHANGED <<props, mapped, geometryVars, batchVars, postVars,
                   concurrentVars>>

NextMapper == Map \/ Remap

SpecMapper == InitMapper /\ [][NextMapper]_vars


-----------------------------------------------------------------------------
(* Inputs of the Geometry Normalizer.  Coordinates are given in tenths:    *)
(* Tenths(986) is 98.6.                                                    *)

MaxRingRest == 2

Tenths(n) == IF n < 0 THEN Num(TRUE, -n, 1) ELSE Num(FALSE, n, 1)

Position(x, y) == Arr(<<Tenths(x), Tenths(y)>>)

\* 3.6, 98.6, 1000, 1000.1, -1000, -1000.1, 450000, 500000
CoordValues == {36, 986, 10000, 10001, -10000, -10001, 4500000, 5000000}

FirstPositions == {Position(x, y) : x, y \in CoordValues}

OtherPositions ==
    {Position(9861, 36), Position(4501000, 5001000), Position(10000, -10000)}

SeqsUpTo(S, n) == UNION {[1..len -> S] : len \in 0..n}

Rings ==
    {Arr(<<first>> \o rest) :
        first \in FirstPositions, rest \in SeqsUpTo(OtherPositions, MaxRingRest)}

OtherRings ==
    {Arr(<<Position(9861, 361), Position(986, 361)>>),
     Arr(<<Position(4501000, 5001000)>>)}

ExtraRings == {<<>>} \cup {<<ring>> : ring \in OtherRings}
ExtraPolygons == {<<>>} \cup {<<Arr(<<ring>>)>> : ring \in OtherRings}

Polygon(coordinates) == Geom([type |-> "Polygon", coordinates |-> coordinates])
MultiPolygon(coordinates) ==
    Geom([type |-> "MultiPolygon", coordinates |-> coordinates])

Polygons ==
    {Polygon(Arr(<<ring>> \o extra)) : ring \in Rings, extra \in ExtraRings}

MultiPolygons ==
    {MultiPolygon(Arr(<<Arr(<<ring>>)>> \o extra)) :
        ring \in Rings, extra \in ExtraPolygons}

LineStringExample ==
    Geom([type |-> "LineString",
          coordinates |-> Arr(<<Position(986, 36), Position(9861, 36)>>)])

\* other types, and Polygons and MultiPolygons that are not well formed
OtherGeometries ==
    {Null,
     LineStringExample,
     Geom([type |-> "LineString",
           coordinates |-> Arr(<<Position(4500000, 5000000)>>)]),
     Geom([type |-> "Point", coordinates |-> Position(986, 36)]),
     Polygon(Undefined),
     Polygon(Arr(<<>>)),
     Polygon(Arr(<<Arr(<<>>)>>)),
     Polygon(Arr(<<Arr(<<Arr(<<Tenths(4500000)>>)>>)>>)),
     Polygon(Arr(<<Arr(<<Position(4500000, 5000000), Tenths(5)>>)>>)),
     MultiPolygon(Null),
     MultiPolygon(Arr(<<>>)),
     MultiPolygon(Arr(<<Arr(<<>>)>>))}

Geometries == Polygons \cup MultiPolygons \cup OtherGeometries

-----------------------------------------------------------------------------
(* Specification of the Geometry Normalizer: normalizeGeometry is called   *)
(* on a geometry, then on its own result.                                  *)

InitGeometry ==
    /\ pc = "start"
    /\ geometry \in Geometries
    /\ normalized = Null
    /\ renormalized = Null
    /\ coordSystem = "none"
    /\ MapperIdle
    /\ BatchIdle
    /\ PostIdle
    /\ ConcurrentIdle

Normalize ==
    /\ pc = "start"
    /\ LET r == normalizeGeometry(geometry)
       IN  /\ normalized' = r.val
           /\ coordSystem' = r.sys
           /\ pc' = IF r.threw THEN "threw" ELSE "normalized"
    /\ UNCHANGED <<geometry, renormalized,
                   mapperVars, concurrentVars, batchVars, postVars>>

Renormalize ==
    /\ pc = "normalized"
    /\ LET r == normalizeGeometry(normalized)
       IN  /\ renormalized' = r.val
           /\ pc' = IF r.threw THEN "rethrew" ELSE "renormalized"
    /\ UNCHANGED <<geometry, normalized, coordSystem,
                   mapperVars, concurrentVars, batchVars,
                   postVars>>

NextGeometry == Normalize \/ Renormalize

SpecGeometry == InitGeometry /\ [][NextGeometry]_vars


-----------------------------------------------------------------------------
(* GeoJSON batch processor: processGeoJSON of the two route files.  A      *)
(* feature is Feat(properties, geometry) or null; a record is an object.   *)

Feat(properties, geom) ==
    [k |-> "feature", v |-> [properties |-> properties, geometry |-> geom]]

Collection(fs) == [k |-> "collection", v |-> fs]

\* the two files that define processGeoJSON
Routes == {"cadastral-data", "upload-cadastral-data"}

\* the own enumerable properties Object.keys lists, with their values; the
\* index keys "0", "1", ... of an array or string of at most ten elements
RECURSIVE IndexEntries(_, _)
IndexEntries(a, n) ==
    IF n = 0 THEN <<>>
    ELSE Append(IndexEntries(a, n - 1), <<DigitChar(n - 1), Index(a, n - 1)>>)

Entries(val) ==
    CASE val.k = "obj" -> val.v
      [] val.k \in {"arr", "str"} -> IndexEntries(val, Len(val.v))
      [] OTHER -> <<>>

\* {...o} applied on top of the keys already in base
RECURSIVE Spread(_, _, _)
Spread(base, o, n) ==
    IF n = 0 THEN base
    ELSE Put(Spread(base, o, n - 1), o[n][1], o[n][2])

\* an identifier made of the clock value alone
GeneratedIdNoIndex(t, idx) ==
    Str(<<"P", "A", "R", "C", "E", "L", "_">> \o IntToChars(t) \o <<"_">>)

\* `PARCEL_${Date.now()}_${i}` for the clock value t and the index idx
GeneratedId(t, idx) ==
    Str(<<"P", "A", "R", "C", "E", "L", "_">> \o IntToChars(t) \o <<"_">> \o IntToChars(idx))

Active == Str(<<"a", "c", "t", "i", "v", "e">>)

\* TRUE when no identifier is found in the mapped properties, that is when
\* Date.now() is read
NeedsClock(properties) ==
    ~Truthy(Or(Or(Get(properties, "parcel_id"), Get(properties, "nib")),
               Get(properties, "hak")))

\* feature.properties and feature.geometry: undefined on a value that is
\* not a feature object
Field(feature, name) ==
    IF feature.k = "feature" THEN feature.v[name] ELSE Undefined

\* list.unshift(x)
unshift(list, x) == <<x>> \o list

\* list.push(x)
push(list, x) == Append(list, x)

\* const properties = mapFieldNames(feature.properties || {}); a property
\* read of a feature that is null raises a TypeError
featureProperties(feature) ==
    IF NoIndex(feature) THEN <<>>
    ELSE mapFieldNames(Entries(Or(Field(feature, "properties"), Obj(<<>>))))

\* the body of the try block for the feature at index idx, its mapped
\* properties and Date.now() = t: [threw, record]
processFeature(r, feature, properties, idx, t) ==
    IF NoIndex(feature) \/ MapperThrew(properties)
    THEN [threw |-> TRUE, record |-> <<>>]
    ELSE
      LET parcel_id ==
              Or(Or(Or(Get(properties, "parcel_id"), Get(properties, "nib")),
                    Get(properties, "hak")),
                 GeneratedId(t, idx))
          normalizedGeometry ==
              IF r = "cadastral-data"
              THEN normalizeGeometry(Field(feature, "geometry"))
              ELSE Returned(Field(feature, "geometry"), "none")
          status == Or(Get(properties, "status"), Active)
      IN  IF normalizedGeometry.threw THEN [threw |-> TRUE, record |-> <<>>]
          ELSE [threw |-> FALSE,
                record |->
                    Put(Put(Spread(<<<<"parcel_id", parcel_id>>>>,
                                   properties, Len(properties)),
                            "geometry", normalizedGeometry.val),
                        "status", status)]


-----------------------------------------------------------------------------
(* Inputs of the batch processor *)

MaxFeatures == 3
MaxClock == 1

\* the polygon of the end-to-end scenario: [98.6, 3.6], [98.61, 3.6], ...
SpecPolygon ==
    Polygon(Arr(<<Arr(<<Position(986, 36),
                        Arr(<<Num(FALSE, 9861, 2), Tenths(36)>>),
                        Arr(<<Num(FALSE, 9861, 2), Num(FALSE, 361, 2)>>),
                        Arr(<<Tenths(986), Num(FALSE, 361, 2)>>),
                        Position(986, 36)>>)>>))

UtmRing ==
    Arr(<<Position(4500000, 5000000), Position(4501000, 5000000),
          Position(4501000, 5001000), Position(4500000, 5000000)>>)

GeoRing ==
    Arr(<<Position(986, 36), Position(987, 36), Position(987, 37),
          Position(986, 36)>>)

UtmPolygon == Polygon(Arr(<<UtmRing>>))
GeoMultiPolygon == MultiPolygon(Arr(<<Arr(<<GeoRing>>)>>))
UtmMultiPolygon == MultiPolygon(Arr(<<Arr(<<UtmRing>>), Arr(<<UtmRing>>)>>))

BatchFeatures ==
    {Feat(Obj(<<<<"PEMILIK", Str(<<"A", "h", "m", "a", "d">>)>>, <<"LUASPETA", Str(<<"2", "5", "0", "0">>)>>>>),
          SpecPolygon),
     Feat(Obj(<<<<"parcel_id", Str(<<>>)>>>>), SpecPolygon),
     Feat(Obj(<<<<"parcel_id", Str(<<"-">>)>>, <<"NIB", Str(<<"N", "1">>)>>>>),
          GeoMultiPolygon),
     Feat(Obj(<<<<"PARCEL_ID", Str(<<"P", "1">>)>>>>), UtmPolygon),
     Feat(Obj(<<<<"HAK", Str(<<"H", "1">>)>>, <<"Status", Str(<<"s", "o", "l", "d">>)>>>>),
          UtmMultiPolygon),
     Feat(Obj(<<>>), LineStringExample),
     Null,
     Feat(Null, Polygon(Arr(<<>>))),
     Feat(Str(<<"A">>), Null)}

GeoJsonInputs ==
    {Collection(fs) : fs \in SeqsUpTo(BatchFeatures, MaxFeatures)}
        \cup BatchFeatures

-----------------------------------------------------------------------------
(* Specification of the batch processor: one call of processGeoJSON, one   *)
(* step for each iteration of its loop.                                    *)

Init ==
    /\ pc = "start"
    /\ geoJson \in GeoJsonInputs
    /\ route \in Routes
    /\ features = <<>>
    /\ i = 0
    /\ now = 0
    /\ success = <<>>
    /\ errors = <<>>
    /\ escaped = FALSE
    /\ MapperIdle
    /\ GeometryIdle
    /\ PostIdle
    /\ ConcurrentIdle

\* const features = geoJson.features || [geoJson]; reading .features of
\* null raises a TypeError outside the per-feature try block
Begin ==
    /\ pc = "start"
    /\ IF geoJson.k \in {"null", "undefined"}
       THEN /\ escaped' = TRUE
            /\ pc' = "done"
            /\ UNCHANGED features
       ELSE /\ features' = IF geoJson.k = "collection" THEN geoJson.v
                           ELSE <<geoJson>>
            /\ pc' = "loop"
            /\ UNCHANGED escaped
    /\ UNCHANGED <<geoJson, route, i, now, success, errors,
                   mapperVars, concurrentVars,
                   geometryVars, postVars>>

\* one iteration of the for loop: the try block and its catch
ProcessFeature ==
    /\ pc = "loop"
    /\ i < Len(features)
    /\ \E properties \in {featureProperties(features[i + 1])} :
       \E t \in IF ~NoIndex(features[i + 1]) /\ NeedsClock(properties)
                THEN now..MaxClock ELSE {now} :
          LET r == processFeature(route, features[i + 1], properties, i, t)
          IN  /\ now' = t
              /\ IF r.threw
                 THEN /\ errors' = push(errors, [index |-> i,
                                                 feature |-> features[i + 1]])
                      /\ UNCHANGED success
                 ELSE /\ success' = push(success, r.record)
                      /\ UNCHANGED errors
    /\ i' = i + 1
    /\ UNCHANGED <<pc, geoJson, route, features, escaped,
                   mapperVars, concurrentVars,
                   geometryVars, postVars>>

\* return { success, errors }
Return ==
    /\ pc = "loop"
    /\ i = Len(features)
    /\ pc' = "done"
    /\ UNCHANGED <<batchVars,
                   mapperVars, concurrentVars, geometryVars, postVars>>

Next == Begin \/ ProcessFeature \/ Return

Spec == Init /\ [][Next]_vars


-----------------------------------------------------------------------------
(* The POST handler of the two route files.  A request carries a file      *)
(* [name, content] or none.  The content is a short text, the text of a    *)
(* GeoJSON document (held as the value JSON.parse gives for it), or a ZIP  *)
(* archive [entries, source]: the member names AdmZip lists and what       *)
(* shapefile.read makes of the .shp and .dbf bytes.  Each await of a       *)
(* storage call is a step of its own.                                      *)

File(name, content) ==
    [k |-> "file", v |-> [name |-> name, content |-> content]]
Text(chars) == [k |-> "text", v |-> chars]
Doc(val) == [k |-> "doc", v |-> val]
Zip(entries, source) ==
    [k |-> "zip", v |-> [entries |-> entries, source |-> source]]

\* what shapefile.read gives: a rejection, or a FeatureCollection
ReadFails == [threw |-> TRUE, features |-> <<>>]
ReadGives(fs) == [threw |-> FALSE, features |-> fs]

UpperCase ==
    <<"A", "B", "C", "D", "E", "F", "G", "H", "I", "J", "K", "L", "M",
      "N", "O", "P", "Q", "R", "S", "T", "U", "V", "W", "X", "Y", "Z">>
LowerCase ==
    <<"a", "b", "c", "d", "e", "f", "g", "h", "i", "j", "k", "l", "m",
      "n", "o", "p", "q", "r", "s", "t", "u", "v", "w", "x", "y", "z">>

lowerChar(c) ==
    IF \E n \in 1..Len(UpperCase) : UpperCase[n] = c
    THEN LowerCase[CHOOSE n \in 1..Len(UpperCase) : UpperCase[n] = c]
    ELSE c

\* name.toLowerCase() on the characters of a file or member name
nameToLowerCase(name) == [n \in 1..Len(name) |-> lowerChar(name[n])]

\* s.endsWith(suffix)
endsWith(s, suffix) ==
    /\ Len(s) >= Len(suffix)
    /\ SubSeq(s, Len(s) - Len(suffix) + 1, Len(s)) = suffix

DotZip == <<".", "z", "i", "p">>
DotJson == <<".", "j", "s", "o", "n">>
DotGeojson == <<".", "g", "e", "o", "j", "s", "o", "n">>
DotShp == <<".", "s", "h", "p">>
DotDbf == <<".", "d", "b", "f">>
DotPrj == <<".", "p", "r", "j">>

\* the name the extension tests look at: file.name.toLowerCase() in
\* cadastral-data/route.ts, file.name in upload-cadastral-data/route.ts
testedName(r, name) ==
    IF r = "cadastral-data" THEN nameToLowerCase(name) ELSE name

\* the branch of the if / else if / else on the file name
fileKind(r, name) ==
    IF endsWith(testedName(r, name), DotZip) THEN "zip"
    ELSE IF \/ endsWith(testedName(r, name), DotJson)
            \/ endsWith(testedName(r, name), DotGeojson)
         THEN "json"
    ELSE "other"

\* content.charCodeAt(0) === 0xFEFF ? content.slice(1) : content
BOM == "BOM"
stripBOM(chars) ==
    IF Len(chars) > 0 /\ chars[1] = BOM THEN Tail(chars) ELSE chars

\* JSON.parse(content) of the decoded bytes: [ok, val]
parseContent(content) ==
    CASE content.k = "text" ->
             LET r == JSONParse(stripBOM(content.v))
             IN  [ok |-> r.ok, val |-> r.val]
      [] content.k = "doc" -> [ok |-> TRUE, val |-> content.v]
      [] OTHER -> [ok |-> FALSE, val |-> Null]

\* entries.find with a test on the name as it is spelled: 0 when not found
findEntryCaseSensitive(entries, ext) ==
    IF \E n \in 1..Len(entries) : endsWith(entries[n], ext)
    THEN CHOOSE n \in 1..Len(entries) :
            /\ endsWith(entries[n], ext)
            /\ \A m \in 1..(n - 1) : ~endsWith(entries[m], ext)
    ELSE 0

\* entries.find(entry => entry.entryName.toLowerCase().endsWith(ext)):
\* the position of the first such member, 0 when find gives undefined
findEntry(entries, ext) ==
    IF \E n \in 1..Len(entries) : endsWith(nameToLowerCase(entries[n]), ext)
    THEN CHOOSE n \in 1..Len(entries) :
            /\ endsWith(nameToLowerCase(entries[n]), ext)
            /\ \A m \in 1..(n - 1) :
                  ~endsWith(nameToLowerCase(entries[m]), ext)
    ELSE 0

NoShp == "No .shp file found in ZIP archive"
NoDbf == "No .dbf file found in ZIP archive"
BadArchive == "Invalid or unsupported zip format"
ReadError == "shapefile.read rejected"

\* processShapefile up to its feature loop: [threw, error, features,
\* projectionInfo]; every throw is rethrown by the outer catch as
\* 'Failed to process shapefile: ...'
extractShapefile(content) ==
    IF content.k # "zip"
    THEN [threw |-> TRUE, error |-> BadArchive, features |-> <<>>,
          projectionInfo |-> 0]
    ELSE
      LET entries == content.v.entries
          shpEntry == findEntry(entries, DotShp)
          dbfEntry == findEntry(entries, DotDbf)
          prjEntry == findEntry(entries, DotPrj)
      IN  IF shpEntry = 0
          THEN [threw |-> TRUE, error |-> NoShp, features |-> <<>>,
                projectionInfo |-> 0]
          ELSE IF dbfEntry = 0
          THEN [threw |-> TRUE, error |-> NoDbf, features |-> <<>>,
                projectionInfo |-> 0]
          ELSE IF content.v.source.threw
          THEN [threw |-> TRUE, error |-> ReadError, features |-> <<>>,
                projectionInfo |-> prjEntry]
          ELSE [threw |-> FALSE, error |-> "", features |-> content.v.source.features,
                projectionInfo |-> prjEntry]

\* a response that reports a success with empty counts
errorAsResult(status, message) ==
    [status |-> 200, success |-> TRUE, imported |-> 0, failed |-> 0,
     total |-> 0, errors |-> <<>>]

\* NextResponse.json({ success: false, message }, { status })
errorResponse(status, message) ==
    [status |-> status, success |-> FALSE, message |-> message]

\* the number of error details a response carries at most
ErrorSampleSize == 10

\* allErrors.slice(0, ...) without a limit
sliceAll(allErrors) == allErrors

\* allErrors.slice(0, 10)
slice(allErrors) ==
    SubSeq(allErrors, 1,
           IF Len(allErrors) < ErrorSampleSize THEN Len(allErrors)
           ELSE ErrorSampleSize)

\* a response whose total counts the mapped records only
importResponseTotalOfRecords(succ, errs, imp, insErrs) ==
    LET allErrors == errs \o insErrs
    IN  [status |-> 200, success |-> TRUE, imported |-> imp,
         failed |-> Len(allErrors), total |-> Len(succ),
         errors |-> slice(allErrors)]

\* the response after the insert loop
importResponse(succ, errs, imp, insErrs) ==
    LET allErrors == errs \o insErrs
    IN  [status |-> 200, success |-> TRUE, imported |-> imp,
         failed |-> Len(allErrors), total |-> Len(succ) + Len(errs),
         errors |-> slice(allErrors)]

\* the storage function the insert loop calls first for a record
primaryCall(r) ==
    IF r = "cadastral-data" THEN "insert_parcel_with_geometry"
    ELSE "cadastral_parcels.insert"

Fallback == "insert_parcel_with_geometry_simple"

\* the fields the insert loop copies from a record, in the order of the
\* object literal
InsertFields ==
    <<"parcel_id", "provinsi", "kabupaten", "kecamatan", "desa", "nib", "su",
      "hak", "tipe_hak", "luas_tertulis", "luas_peta", "sk", "tanggal_sk",
      "tanggal_terbit_hak", "berakhir_hak", "pemilik", "tipe_pemilik",
      "guna_tanah_klasifikasi", "guna_tanah_utama", "penggunaan",
      "terpetakan", "kasus", "pihak_bersengketa", "solusi", "hasil",
      "upaya_penanganan", "no_peta", "status", "keterangan">>

\* const insertData = { parcel_id: record.parcel_id, ... }
insertData(record) ==
    [n \in 1..Len(InsertFields) |->
        <<InsertFields[n], Get(record, InsertFields[n])>>]

\* JSON.stringify(val): the text of val, and undefined for undefined
stringify(val) ==
    IF val.k = "undefined" THEN Undefined ELSE [k |-> "json", v |-> val]

\* a call that was given no such argument
Absent == [k |-> "absent", v |-> 0]

\* a storage call of either route that is given the fields alone
callArgumentsFieldsOnly(r, record) ==
    [parcel_data |-> insertData(record), geom_geojson |-> Absent]

\* what a storage call is given: { parcel_data, geom_geojson } in
\* cadastral-data/route.ts, insertData alone in upload-cadastral-data
callArguments(r, record) ==
    IF r = "cadastral-data"
    THEN [parcel_data |-> insertData(record),
          geom_geojson |-> stringify(Get(record, "geometry"))]
    ELSE [parcel_data |-> insertData(record), geom_geojson |-> Absent]

\* the log after a storage call for record idx has been issued
issue(log, idx, fn, args) ==
    Append(log, [record |-> idx, fn |-> fn, args |-> args,
                 outcome |-> "pending"])

\* a log in which the returned call is still counted as pending
leftPending(log, outcome) == log

\* the log after the awaited call has settled
settle(log, outcome) == [log EXCEPT ![Len(log)].outcome = outcome]

\* a loop that stops at the first failed record
abortLoop(idx, len) == len

\* the insert loop goes on with the next record after a failure
continueLoop(idx, len) == idx + 1

\* the storage calls that have not settled
InFlight == {n \in 1..Len(calls) : calls[n].outcome = "pending"}


-----------------------------------------------------------------------------
(* Inputs of the POST handler *)

MaxPostFeatures == 2
MaxEntries == 3

IdentifiedFeature ==
    Feat(Obj(<<<<"PARCEL_ID", Str(<<"P", "1">>)>>>>), UtmPolygon)
AnonymousFeature == Feat(Obj(<<>>), LineStringExample)

PostFeatures == {IdentifiedFeature, AnonymousFeature, Null}

\* nine features that fail to map followed by two that map: more failures
\* than the response lists
ManyFailures ==
    Collection([n \in 1..11 |-> IF n <= 9 THEN Null ELSE IdentifiedFeature])

Documents ==
    {Collection(fs) : fs \in SeqsUpTo(PostFeatures, MaxPostFeatures)}
        \cup {IdentifiedFeature, AnonymousFeature, ManyFailures}

Texts ==
    {<<>>, <<"[">>, <<"n", "u", "l", "l">>, <<BOM, "n", "u", "l", "l">>,
     <<BOM, "[">>, <<"[", "]">>, <<"5">>}

JsonContents == {Text(t) : t \in Texts} \cup {Doc(d) : d \in Documents}

JsonNames ==
    {<<"a", ".", "j", "s", "o", "n">>, <<"A", ".", "J", "S", "O", "N">>,
     <<"a", ".", "g", "e", "o", "j", "s", "o", "n">>}
ZipNames == {<<"a", ".", "z", "i", "p">>, <<"A", ".", "Z", "I", "P">>}
OtherName == <<"a", ".", "t", "x", "t">>

EntryNames ==
    {<<"a", ".", "s", "h", "p">>, <<"A", ".", "S", "H", "P">>,
     <<"a", ".", "d", "b", "f">>, <<"a", ".", "p", "r", "j">>}

Sources ==
    {ReadFails, ReadGives(<<IdentifiedFeature>>),
     ReadGives(<<AnonymousFeature, Null>>)}

ZipContents ==
    {Zip(es, src) : es \in SeqsUpTo(EntryNames, MaxEntries), src \in Sources}

Files ==
    {Null}
        \cup {File(n, c) : n \in JsonNames, c \in JsonContents}
        \cup {File(n, c) : n \in ZipNames, c \in ZipContents}
        \cup {File(OtherName, Text(<<>>)),
              File(<<"a", ".", "z", "i", "p">>, Text(<<>>)),
              File(<<"a", ".", "j", "s", "o", "n">>,
                   Zip(<<>>, ReadFails))}

StorageOutcomes == {"ok", "error", "throw"}


-----------------------------------------------------------------------------
(* Specification of the POST handler: one request.  Begin, ProcessFeature  *)
(* and Return are the loop of processGeoJSON, and of processShapefile,     *)
(* whose loop has the same body.                                           *)

InitPost ==
    /\ pc = "request"
    /\ file \in Files
    /\ route \in Routes
    /\ geoJson = Null
    /\ features = <<>>
    /\ i = 0
    /\ now = 0
    /\ success = <<>>
    /\ errors = <<>>
    /\ escaped = FALSE
    /\ calls = <<>>
    /\ recordIdx = 0
    /\ imported = 0
    /\ insertErrors = <<>>
    /\ response = NoResponse
    /\ MapperIdle
    /\ GeometryIdle
    /\ ConcurrentIdle

\* from formData to the call of processShapefile or processGeoJSON
Receive ==
    /\ pc = "request"
    /\ IF file.k = "null"
       THEN /\ response' = errorResponse(400, "No file provided")
            /\ pc' = "responded"
            /\ UNCHANGED <<geoJson, features>>
       ELSE
         LET kind == fileKind(route, file.v.name)
         IN  IF kind = "zip" /\ route = "cadastral-data"
             THEN LET r == extractShapefile(file.v.content)
                  IN  IF r.threw
                      THEN /\ response' = errorResponse(500, r.error)
                           /\ pc' = "responded"
                           /\ UNCHANGED <<geoJson, features>>
                      ELSE /\ features' = r.features
                           /\ pc' = "loop"
                           /\ UNCHANGED <<geoJson, response>>
             ELSE IF kind = "zip"
             THEN /\ response' = errorResponse(400, "Shapefile support coming soon")
                  /\ pc' = "responded"
                  /\ UNCHANGED <<geoJson, features>>
             ELSE IF kind = "json"
             THEN LET r == parseContent(file.v.content)
                  IN  IF ~r.ok
                      THEN /\ response' = errorResponse(500, "SyntaxError")
                           /\ pc' = "responded"
                           /\ UNCHANGED <<geoJson, features>>
                      ELSE /\ geoJson' = r.val
                           /\ pc' = "start"
                           /\ UNCHANGED <<features, response>>
             ELSE /\ response' = errorResponse(400, "Unsupported file format")
                  /\ pc' = "responded"
                  /\ UNCHANGED <<geoJson, features>>
    /\ UNCHANGED <<file, route, i, now, success, errors, escaped, calls,
                   recordIdx, imported, insertErrors,
                   mapperVars, concurrentVars,
                   geometryVars>>

\* the processor has returned or thrown: the outer catch, or the start of
\* the insert loop
StartInserts ==
    /\ pc = "done"
    /\ IF escaped
       THEN /\ response' = errorResponse(500, "TypeError")
            /\ pc' = "responded"
       ELSE /\ pc' = "insert"
            /\ UNCHANGED response
    /\ UNCHANGED <<file, calls, recordIdx, imported, insertErrors, batchVars,
                   mapperVars, concurrentVars, geometryVars>>

\* the first storage call for the record at recordIdx
CallStorage ==
    /\ pc = "insert"
    /\ recordIdx < Len(success)
    /\ calls' = issue(calls, recordIdx, primaryCall(route),
                     callArguments(route, success[recordIdx + 1]))
    /\ pc' = "await"
    /\ UNCHANGED <<file, recordIdx, imported, insertErrors, response,
                   batchVars, mapperVars, concurrentVars, geometryVars>>

\* the awaited call settles: { error } is empty, or set, or the call throws
StorageReturns ==
    /\ pc = "await"
    /\ \E outcome \in StorageOutcomes :
          LET call == calls[Len(calls)]
              record == success[call.record + 1]
          IN  /\ calls' = settle(calls, outcome)
              /\ IF outcome = "ok"
                 THEN /\ imported' = imported + 1
                      /\ recordIdx' = recordIdx + 1
                      /\ pc' = "insert"
                      /\ UNCHANGED insertErrors
                 ELSE IF outcome = "error" /\ call.fn = "insert_parcel_with_geometry"
                 THEN /\ pc' = "fallback"
                      /\ UNCHANGED <<imported, recordIdx, insertErrors>>
                 ELSE /\ insertErrors' =
                           push(insertErrors,
                                [parcel_id |-> Get(record, "parcel_id"),
                                 message |-> outcome])
                      /\ recordIdx' = continueLoop(recordIdx, Len(success))
                      /\ pc' = "insert"
                      /\ UNCHANGED imported
    /\ UNCHANGED <<file, response, batchVars,
                   mapperVars, concurrentVars, geometryVars>>

\* cadastral-data/route.ts: the second storage call after the first
\* returned an error
CallFallback ==
    /\ pc = "fallback"
    /\ calls' = issue(calls, recordIdx, Fallback,
                     callArguments(route, success[recordIdx + 1]))
    /\ pc' = "await"
    /\ UNCHANGED <<file, recordIdx, imported, insertErrors, response,
                   batchVars, mapperVars, concurrentVars, geometryVars>>

\* the response after the loop
Respond ==
    /\ pc = "insert"
    /\ recordIdx >= Len(success)
    /\ response' = importResponse(success, errors, imported, insertErrors)
    /\ pc' = "responded"
    /\ UNCHANGED <<file, calls, recordIdx, imported, insertErrors, batchVars,
                   mapperVars, concurrentVars, geometryVars>>

NextPost ==
    \/ Receive
    \/ Begin
    \/ ProcessFeature
    \/ Return
    \/ StartInserts
    \/ CallStorage
    \/ StorageReturns
    \/ CallFallback
    \/ Respond

SpecPost == InitPost /\ [][NextPost]_vars


-----------------------------------------------------------------------------
(* Two import requests at once.  Each request runs the loop of             *)
(* processGeoJSON on its own features, success and errors; Date.now() is   *)
(* the one clock both read.  The loops advance in any order, as on two     *)
(* instances of the server.                                                *)

Requests == {1, 2}

MaxRequestFeatures == 2

RequestFeatures == {AnonymousFeature, IdentifiedFeature, Null}

\* the locals of processGeoJSON at its first iteration
Request(fs) ==
    [features |-> fs, i |-> 0, success |-> <<>>, errors |-> <<>>,
     returned |-> FALSE]

InitConcurrent ==
    /\ pc = "concurrent"
    /\ route \in Routes
    /\ now = 0
    /\ requests \in
          [Requests ->
              {Request(fs) :
                  fs \in SeqsUpTo(RequestFeatures, MaxRequestFeatures)}]
    /\ geoJson = Null
    /\ features = <<>>
    /\ i = 0
    /\ success = <<>>
    /\ errors = <<>>
    /\ escaped = FALSE
    /\ MapperIdle
    /\ GeometryIdle
    /\ PostIdle

\* one iteration of the loop of request r
RequestProcessFeature(r) ==
    /\ pc = "concurrent"
    /\ requests[r].i < Len(requests[r].features)
    /\ \E properties \in
            {featureProperties(requests[r].features[requests[r].i + 1])} :
          \E t \in IF /\ ~NoIndex(requests[r].features[requests[r].i + 1])
                      /\ NeedsClock(properties)
                   THEN now..MaxClock ELSE {now} :
             LET res == processFeature(route,
                                       requests[r].features[requests[r].i + 1],
                                       properties, requests[r].i, t)
             IN  /\ now' = t
                 /\ requests' =
                       [requests EXCEPT
                          ![r].i = @ + 1,
                          ![r].success = IF res.threw THEN @
                                         ELSE push(@, res.record),
                          ![r].errors =
                              IF res.threw
                              THEN push(@, [index |-> requests[r].i,
                                            feature |->
                                                requests[r].features[
                                                    requests[r].i + 1]])
                              ELSE @]
    /\ UNCHANGED <<pc, geoJson, route, features, i, success, errors, escaped,
                   mapperVars, geometryVars, postVars>>

\* return { success, errors } of request r
RequestReturn(r) ==
    /\ pc = "concurrent"
    /\ requests[r].i >= Len(requests[r].features)
    /\ ~requests[r].returned
    /\ requests' = [requests EXCEPT ![r].returned = TRUE]
    /\ UNCHANGED <<pc, batchVars, mapperVars, geometryVars, postVars>>

NextConcurrent ==
    \/ \E r \in Requests : RequestProcessFeature(r)
    \/ \E r \in Requests : RequestReturn(r)

SpecConcurrent == InitConcurrent /\ [][NextConcurrent]_vars


-----------------------------------------------------------------------------
(* The POST handler of cadastral-data/route.ts that takes a JSON body: a   *)
(* FeatureCollection is imported feature by feature, any other body is one *)
(* parcel.  The bodies of the model have no fields besides type,           *)
(* properties, geometry and features.                                      *)

JsonBodyHandler == "cadastral-data: JSON body"

\* request.json() rejects
Unparsable == [k |-> "unparsable", v |-> 0]

\* properties[key]: undefined on a value that is not an object
propertyOf(properties, key) ==
    IF properties.k = "obj" THEN Get(properties.v, key) ELSE Undefined

\* `PARCEL_${Date.now()}_${Math.random().toString(36).substr(2, 9)}`
RandomId(t, suffix) ==
    Str(<<"P", "A", "R", "C", "E", "L", "_">> \o IntToChars(t) \o <<"_">>
            \o suffix)

\* const insertData = { parcel_id: properties.parcel_id || `PARCEL_...`,
\* provinsi: properties.provinsi || null, ... }
bodyInsertData(properties, generated) ==
    [n \in 1..Len(InsertFields) |->
        LET f == InsertFields[n]
            own == propertyOf(properties, f)
        IN  <<f,
              CASE f = "parcel_id" -> Or(own, generated)
                [] f = "luas_peta" ->
                       Or(Or(own, propertyOf(properties, "area_sqm")), Null)
                [] f = "pemilik" ->
                       Or(Or(own, propertyOf(properties, "owner_name")), Null)
                [] f = "penggunaan" ->
                       Or(Or(own, propertyOf(properties, "land_use")), Null)
                [] f = "status" -> Or(own, Active)
                [] OTHER -> Or(own, Null)>>]

\* { parcel_data: insertData, geom_geojson: JSON.stringify(x.geometry) }
bodyArguments(x, generated) ==
    [parcel_data |->
         bodyInsertData(Or(Field(x, "properties"), Obj(<<>>)), generated),
     geom_geojson |-> stringify(Field(x, "geometry"))]

Unknown == Str(<<"u", "n", "k", "n", "o", "w", "n">>)

\* inputs: the bodies, the random suffixes, and what the awaited call
\* gives: "empty" is { data: null, error: null }
Bodies == Documents \cup {Null, Unparsable}
RandomSuffixes == {<<"a">>, <<"b">>}
BodyOutcomes == StorageOutcomes \cup {"empty"}

\* the values Date.now() and Math.random() give when the template literal
\* is evaluated, which is when properties.parcel_id is falsy
Generated(x) ==
    IF Truthy(propertyOf(Or(Field(x, "properties"), Obj(<<>>)), "parcel_id"))
    THEN {<<now, <<"a">>>>}
    ELSE (now..MaxClock) \X RandomSuffixes

InitJsonBody ==
    /\ pc = "body"
    /\ route = JsonBodyHandler
    /\ geoJson \in Bodies
    /\ features = <<>>
    /\ i = 0
    /\ now = 0
    /\ success = <<>>
    /\ errors = <<>>
    /\ escaped = FALSE
    /\ MapperIdle
    /\ GeometryIdle
    /\ PostIdle
    /\ ConcurrentIdle

\* const body = await request.json() and the test on body.type
ReadBody ==
    /\ pc = "body"
    /\ IF geoJson.k \in {"unparsable", "null"}
       THEN /\ response' = [status |-> 500, error |-> "Failed to create data"]
            /\ pc' = "responded"
            /\ UNCHANGED features
       ELSE IF geoJson.k = "collection"
       THEN /\ features' = geoJson.v
            /\ pc' = "features"
            /\ UNCHANGED response
       ELSE /\ pc' = "single"
            /\ UNCHANGED <<features, response>>
    /\ UNCHANGED <<geoJson, route, i, now, success, errors, escaped, file,
                   calls, recordIdx, imported, insertErrors, mapperVars,
                   geometryVars, concurrentVars>>

\* one iteration up to the awaited call; a feature that is null raises a
\* TypeError, which the inner catch records
FeatureCall ==
    /\ pc = "features"
    /\ i < Len(features)
    /\ IF NoIndex(features[i + 1])
       THEN /\ errors' = push(errors, [parcel_id |-> Unknown,
                                       error |-> "TypeError",
                                       feature |-> features[i + 1]])
            /\ i' = i + 1
            /\ UNCHANGED <<pc, now, calls>>
       ELSE \E g \in Generated(features[i + 1]) :
               /\ now' = g[1]
               /\ calls' = issue(calls, i, "insert_parcel_with_geometry",
                                 bodyArguments(features[i + 1],
                                               RandomId(g[1], g[2])))
               /\ pc' = "feature-await"
               /\ UNCHANGED <<i, errors>>
    /\ UNCHANGED <<geoJson, route, features, success, escaped, file,
                   recordIdx, imported, insertErrors, response, mapperVars,
                   geometryVars, concurrentVars>>

\* the awaited call settles: results.push(data[0]), or errors.push(...)
\* in the branch on error or in the inner catch
FeatureReturns ==
    /\ pc = "feature-await"
    /\ \E outcome \in BodyOutcomes :
          /\ calls' = settle(calls, outcome)
          /\ IF outcome = "ok"
             THEN /\ success' = push(success, <<<<"id", IntNum(i)>>>>)
                  /\ UNCHANGED errors
             ELSE /\ errors' =
                       push(errors,
                            [parcel_id |->
                                 IF outcome = "error"
                                 THEN Get(calls[Len(calls)].args.parcel_data,
                                          "parcel_id")
                                 ELSE Unknown,
                             error |-> outcome,
                             feature |-> features[i + 1]])
                  /\ UNCHANGED success
    /\ i' = i + 1
    /\ pc' = "features"
    /\ UNCHANGED <<geoJson, route, features, now, escaped, file, recordIdx,
                   imported, insertErrors, response, mapperVars, geometryVars,
                   concurrentVars>>

\* the response after the loop
FeaturesRespond ==
    /\ pc = "features"
    /\ i >= Len(features)
    /\ response' = [status |-> 200, success |-> TRUE,
                    imported |-> Len(success), failed |-> Len(errors),
                    total |-> Len(features), results |-> success,
                    errors |-> slice(errors)]
    /\ pc' = "responded"
    /\ UNCHANGED <<batchVars, file, calls, recordIdx, imported, insertErrors,
                   mapperVars, geometryVars, concurrentVars>>

\* a body that is no FeatureCollection: one parcel, one call
SingleCall ==
    /\ pc = "single"
    /\ \E g \in Generated(geoJson) :
          /\ now' = g[1]
          /\ calls' = issue(calls, 0, "insert_parcel_with_geometry",
                            bodyArguments(geoJson, RandomId(g[1], g[2])))
    /\ pc' = "single-await"
    /\ UNCHANGED <<geoJson, route, features, i, success, errors, escaped,
                   file, recordIdx, imported, insertErrors, response,
                   mapperVars, geometryVars, concurrentVars>>

\* the call settles: 400 on error, the stored row otherwise; a rejection,
\* or data[0] of null, goes to the outer catch
SingleReturns ==
    /\ pc = "single-await"
    /\ \E outcome \in BodyOutcomes :
          /\ calls' = settle(calls, outcome)
          /\ response' =
                CASE outcome = "ok" ->
                         [status |-> 200, success |-> TRUE,
                          data |-> <<<<"id", IntNum(0)>>>>]
                  [] outcome = "error" -> [status |-> 400, error |-> "error"]
                  [] OTHER ->
                         [status |-> 500, error |-> "Failed to create data"]
    /\ pc' = "responded"
    /\ UNCHANGED <<batchVars, file, recordIdx, imported, insertErrors,
                   mapperVars, geometryVars, concurrentVars>>

\* every handler that imports: the upload handlers and the JSON body handler
InitImports == InitPost \/ InitJsonBody

NextImports ==
    \/ Receive
    \/ Begin
    \/ ProcessFeature
    \/ Return
    \/ StartInserts
    \/ CallStorage
    \/ StorageReturns
    \/ CallFallback
    \/ Respond
    \/ ReadBody
    \/ FeatureCall
    \/ FeatureReturns
    \/ FeaturesRespond
    \/ SingleCall
    \/ SingleReturns

SpecImports == InitImports /\ [][NextImports]_vars


-----------------------------------------------------------------------------
(* Properties of the batch processor (Spec) *)

RecordGeometry(record) == Get(record, "geometry")

\* a Polygon feature whose rings are arrays of positions, the first ring
\* not empty
ValidPolygonFeature(f) ==
    /\ f.k = "feature"
    /\ f.v.geometry.k = "geom"
    /\ f.v.geometry.v.type = "Polygon"
    /\ RingsWellFormed(f.v.geometry.v.coordinates)
    /\ Len(f.v.geometry.v.coordinates.v) >= 1
    /\ Len(f.v.geometry.v.coordinates.v[1].v) >= 1

ValidMultiPolygonFeature(f) ==
    /\ f.k = "feature"
    /\ f.v.geometry.k = "geom"
    /\ f.v.geometry.v.type = "MultiPolygon"
    /\ f.v.geometry.v.coordinates.k = "arr"
    /\ Len(f.v.geometry.v.coordinates.v) >= 1
    /\ \A n \in 1..Len(f.v.geometry.v.coordinates.v) :
          /\ RingsWellFormed(f.v.geometry.v.coordinates.v[n])
          /\ Len(f.v.geometry.v.coordinates.v[n].v) >= 1
          /\ Len(f.v.geometry.v.coordinates.v[n].v[1].v) >= 1

IsLineStringFeature(f) ==
    /\ f.k = "feature"
    /\ f.v.geometry.k = "geom"
    /\ f.v.geometry.v.type = "LineString"

\* C1: every record in the success list has a parcel_id that is neither
\* null, undefined nor the empty string, whatever the input feature was.
C1_ParcelIdNeverEmpty ==
    \A n \in 1..Len(success) :
        LET id == Get(success[n], "parcel_id")
        IN  id.k \notin {"null", "undefined"} /\ ~StrictEq(id, Str(<<>>))

\* the input is a FeatureCollection with exactly one LineString feature,
\* every other feature a valid Polygon feature
OneLineStringAmongPolygons ==
    /\ geoJson.k = "collection"
    /\ Cardinality({n \in 1..Len(geoJson.v) :
                       IsLineStringFeature(geoJson.v[n])}) = 1
    /\ \A n \in 1..Len(geoJson.v) :
          IsLineStringFeature(geoJson.v[n]) \/ ValidPolygonFeature(geoJson.v[n])

\* the zero-based index of the LineString feature
LineStringIndex ==
    (CHOOSE n \in 1..Len(geoJson.v) : IsLineStringFeature(geoJson.v[n])) - 1

C9_RecordsAreMultiPolygon ==
    (/\ geoJson.k = "collection"
     /\ \A n \in 1..Len(geoJson.v) :
           ValidPolygonFeature(geoJson.v[n])
               \/ ValidMultiPolygonFeature(geoJson.v[n]))
    => \A n \in 1..Len(success) :
           /\ RecordGeometry(success[n]).k = "geom"
           /\ RecordGeometry(success[n]).v.type = "MultiPolygon"

-----------------------------------------------------------------------------
(* Properties of the Field Mapper (SpecMapper) *)

\* the raw value of the last key of props that resolves to the field
LastRaw(field) ==
    LET n == CHOOSE n \in 1..Len(props) :
                 /\ mappedKeyOf(props[n][1]) = field
                 /\ \A q \in (n + 1)..Len(props) :
                       mappedKeyOf(props[q][1]) # field
    IN  props[n][2]

Resolves(field) == \E n \in 1..Len(props) : mappedKeyOf(props[n][1]) = field

\* C2: mapFieldNames({LUASPETA: "1,487.5 m2"}) gives luas_peta = 1487.5 and
\* mapFieldNames({LUASPETA: "-"}) gives luas_peta = null.
C2_AreaExamples ==
    pc = "mapped" =>
        /\ props = <<<<"LUASPETA", Str(AreaExample)>>>> =>
               StrictEq(Get(mapped, "luas_peta"), Num(FALSE, 14875, 1))
        /\ props = <<<<"LUASPETA", Str(<<"-">>)>>>> =>
               Get(mapped, "luas_peta").k = "null"

\* C3: the value returned for luas_tertulis or luas_peta is a number or
\* null, for every input value of every type.
C3_AreaIsNumberOrNull ==
    pc = "mapped" =>
        \A f \in AreaFields :
            Resolves(f) => Get(mapped, f).k \in {"num", "null"}

\* C4: the value returned for tanggal_sk, tanggal_terbit_hak or
\* berakhir_hak is a YYYY-MM-DD string or null, for every input value of
\* every type.
C4_DateIsIsoOrNull ==
    pc = "mapped" =>
        \A f \in DateFields :
            Resolves(f) =>
                \/ Get(mapped, f).k = "null"
                \/ Get(mapped, f).k = "str" /\ IsDateShape(Get(mapped, f).v)

\* C5: whenever a key resolves to pihak_bersengketa, the value returned
\* for it is an array, also for a string that is valid JSON but no array.
C5_PihakIsArray ==
    (pc = "mapped" /\ Resolves("pihak_bersengketa")) =>
        Get(mapped, "pihak_bersengketa").k = "arr"

\* the cases of the dispute-parties normalization; emptyStrings are the
\* strings that give the empty array
PihakByCase(emptyStrings) ==
    LET raw == LastRaw("pihak_bersengketa")
        out == Get(mapped, "pihak_bersengketa")
    IN  /\ (raw.k = "str" /\ raw.v \in emptyStrings) => StrictEq(out, Arr(<<>>))
        /\ (/\ raw.k = "str"
            /\ raw.v \notin emptyStrings
            /\ JSONParse(raw.v).ok
            /\ JSONParse(raw.v).val.k = "arr")
               => StrictEq(out, JSONParse(raw.v).val)
        /\ (/\ raw.k = "str"
            /\ raw.v \notin emptyStrings
            /\ ~JSONParse(raw.v).ok)
               => StrictEq(out, Arr(<<raw>>))
        /\ raw.k = "arr" => StrictEq(out, raw)
        /\ raw.k \notin {"str", "arr"} => StrictEq(out, Arr(<<>>))

\* C6 as stated: "[]" and "-" give the empty array; a string holding a JSON
\* array gives that array; a string that is not valid JSON gives the
\* one-element array holding it; an array is returned unchanged; a value of
\* any other type gives the empty array.
C6_PihakCasesAsStated ==
    (pc = "mapped" /\ Resolves("pihak_bersengketa")) =>
        PihakByCase({<<"[", "]">>, <<"-">>})

\* C6 amended: "[]", "-" and the empty string give the empty array; a
\* string holding a JSON array gives that array; any other string that is
\* not valid JSON gives the one-element array holding it; an array is
\* returned unchanged; a value of any other type gives the empty array.
C6_PihakCases ==
    (pc = "mapped" /\ Resolves("pihak_bersengketa")) =>
        PihakByCase({<<"[", "]">>, <<"-">>, <<>>})

\* the non-JSON string "Ahmad" has been mapped to ["Ahmad"]
C6_Witness ==
    /\ pc = "mapped"
    /\ props = <<<<"Pihak", Str(<<"A", "h", "m", "a", "d">>)>>>>
    /\ StrictEq(Get(mapped, "pihak_bersengketa"), Arr(<<Str(<<"A", "h", "m", "a", "d">>)>>))

\* C7: mapFieldNames(mapFieldNames(p)) has the same keys and the same
\* values as mapFieldNames(p), for every property bag p.
C7_Idempotent == pc = "remapped" => SameObject(remapped, mapped)

-----------------------------------------------------------------------------
(* Properties of the Geometry Normalizer (SpecGeometry) *)

\* the first coordinate pair of the first ring
FirstPair(g) ==
    IF g.v.type = "Polygon"
    THEN Index(Index(g.v.coordinates, 0), 0)
    ELSE Index(Index(Index(g.v.coordinates, 0), 0), 0)

\* a Polygon or MultiPolygon whose first ring starts with a pair of numbers
HasFirstPair(g) ==
    /\ g.k = "geom"
    /\ g.v.type \in {"Polygon", "MultiPolygon"}
    /\ FirstPair(g).k = "arr"
    /\ Len(FirstPair(g).v) = 2
    /\ \A n \in 1..2 : FirstPair(g).v[n].k = "num"

\* |c| > 1000 for a number c = m / 10^e
Exceeds1000(c) == c.v.m > 1000 * Pow10(c.v.e)

\* C10: a Polygon or MultiPolygon is classified by the first pair of its
\* first ring only: projected when the absolute value of either component
\* is strictly greater than 1000, geographic otherwise.
C10_ClassifiedByFirstPair ==
    (pc = "normalized" /\ HasFirstPair(geometry)) =>
        coordSystem =
            IF \/ Exceeds1000(FirstPair(geometry).v[1])
               \/ Exceeds1000(FirstPair(geometry).v[2])
            THEN "utm" ELSE "geographic"

\* a Polygon starting at [1000, -1000] whose second position is projected
\* has been classified geographic
C10_Witness ==
    /\ pc = "normalized"
    /\ HasFirstPair(geometry)
    /\ geometry.v.type = "Polygon"
    /\ FirstPair(geometry) = Position(10000, -10000)
    /\ Index(Index(geometry.v.coordinates, 0), 1) = Position(4501000, 5001000)
    /\ coordSystem = "geographic"


-----------------------------------------------------------------------------
(* Generated identifiers (Spec) *)

ErrorIndices == {errors[n].index : n \in 1..Len(errors)}
SucceededIndices == (0..(i - 1)) \ ErrorIndices

\* the input index of the feature whose record is success[p]
SourceIndex(p) ==
    CHOOSE a \in SucceededIndices :
        Cardinality({b \in SucceededIndices : b < a}) = p - 1

\* a feature none of whose attributes maps to parcel_id, nib or hak
HasNoIdentifier(f) ==
    /\ f.k = "feature"
    /\ \A key \in Keys(Entries(Or(f.v.properties, Obj(<<>>)))) :
          mappedKeyOf(key) \notin {"parcel_id", "nib", "hak"}

\* C11: within one batch call, the records of two features at different
\* indices that have no parcel_id, nib or hak attribute carry different
\* generated identifiers, whatever values the clock returned.
C11_GeneratedIdsDistinct ==
    \A p \in 1..Len(success) : \A q \in 1..Len(success) :
        (/\ p < q
         /\ HasNoIdentifier(features[SourceIndex(p) + 1])
         /\ HasNoIdentifier(features[SourceIndex(q) + 1]))
        => Get(success[p], "parcel_id") # Get(success[q], "parcel_id")

\* two such records were produced while the clock returned the same value
C11_Witness ==
    /\ pc = "done"
    /\ now = 0
    /\ \E p \in 1..Len(success) : \E q \in 1..Len(success) :
          /\ p < q
          /\ HasNoIdentifier(features[SourceIndex(p) + 1])
          /\ HasNoIdentifier(features[SourceIndex(q) + 1])
          /\ Get(success[p], "parcel_id").k = "str"
          /\ Get(success[q], "parcel_id").k = "str"

-----------------------------------------------------------------------------
(* Properties of the POST handler (SpecPost) *)

Succeeded == pc = "responded" /\ response.success

RecordIndices == 0..(Len(success) - 1)
CallsFor(r) == {n \in 1..Len(calls) : calls[n].record = r}

\* the records storage accepted, and those all of whose calls failed
Accepted == {r \in RecordIndices : \E n \in CallsFor(r) : calls[n].outcome = "ok"}
Rejected ==
    {r \in RecordIndices :
        /\ CallsFor(r) # {}
        /\ \A n \in CallsFor(r) : calls[n].outcome \in {"error", "throw"}}

\* C12: in the import response, imported is the number of records storage
\* accepted, failed is the number of mapping errors plus the number of
\* storage rejections, and errors is the first min(10, failed) entries of
\* the mapping errors followed by the storage errors, never more than 10.
C12_ResponseCounts ==
    Succeeded =>
        /\ response.imported = Cardinality(Accepted)
        /\ response.failed = Len(errors) + Cardinality(Rejected)
        /\ LET n == IF response.failed < 10 THEN response.failed ELSE 10
           IN  response.errors = SubSeq(errors \o insertErrors, 1, n)
        /\ Len(response.errors) <= 10

\* more than ten failures, some of them storage rejections
C12_Witness ==
    /\ Succeeded
    /\ response.failed > 10
    /\ Len(response.errors) = 10
    /\ Rejected # {}

\* C13: every record of the success list gets a storage insert attempt,
\* whatever the outcome of the earlier inserts: an error result or a thrown
\* exception for a record never prevents the attempt for a later record.
C13_EveryRecordAttempted ==
    \A r \in RecordIndices :
        (r < recordIdx \/ Succeeded) => CallsFor(r) # {}

\* a call threw, another returned an error, and later records were attempted
C13_Witness ==
    /\ Succeeded
    /\ \E n \in 1..Len(calls) : \E m \in 1..Len(calls) :
          /\ calls[n].outcome \in {"error", "throw"}
          /\ calls[n].record < calls[m].record
    /\ \E n \in 1..Len(calls) :
          calls[n].outcome = "throw" /\ calls[n].record < Len(success) - 1

\* C14: each mapped record is handed to storage exactly once: a record
\* whose insert call fails gets no second storage call.
C14_HandedOnce ==
    \A r \in RecordIndices :
        /\ Cardinality(CallsFor(r)) <= 1
        /\ Succeeded => Cardinality(CallsFor(r)) = 1

\* C15: storage calls are made one at a time and in the order of the
\* success list: a call is issued only after every earlier call has
\* returned, so at most one storage call is in flight.
C15_OneCallAtATime ==
    /\ Cardinality(InFlight) <= 1
    /\ \A n \in 1..(Len(calls) - 1) :
          /\ calls[n].outcome # "pending"
          /\ calls[n].record <= calls[n + 1].record

\* a call for a later record is in flight after an earlier one returned
C15_Witness ==
    /\ Len(calls) >= 2
    /\ calls[Len(calls)].outcome = "pending"
    /\ calls[1].record < calls[Len(calls)].record

\* a ZIP archive given to processShapefile
IsZipUpload ==
    /\ route = "cadastral-data"
    /\ file.k = "file"
    /\ fileKind(route, file.v.name) = "zip"
    /\ file.v.content.k = "zip"

\* some member name ends in ext, letter case aside
HasMember(entries, ext) ==
    \E n \in 1..Len(entries) :
        /\ Len(entries[n]) >= Len(ext)
        /\ \A c \in 1..Len(ext) :
              lowerChar(entries[n][Len(entries[n]) - Len(ext) + c]) = ext[c]

LacksMandatoryMember(entries) ==
    ~HasMember(entries, DotShp) \/ ~HasMember(entries, DotDbf)

ArchiveError ==
    /\ pc = "responded"
    /\ ~response.success
    /\ response.message \in {NoShp, NoDbf}

IsNotPrj(name) == ~HasMember(<<name>>, DotPrj)

WithoutPrj(content) ==
    Zip(SelectSeq(content.v.entries, IsNotPrj), content.v.source)

InvalidJsonTexts == {<<>>, <<"[">>, <<BOM, "[">>}

\* the bytes are not valid JSON, or the ZIP lacks a .shp or a .dbf member
FatalUpload ==
    /\ file.k = "file"
    /\ \/ /\ fileKind(route, file.v.name) = "json"
          /\ \/ file.v.content.k = "zip"
             \/ file.v.content.k = "text" /\ file.v.content.v \in InvalidJsonTexts
       \/ /\ fileKind(route, file.v.name) = "zip"
          /\ file.v.content.k = "zip"
          /\ LacksMandatoryMember(file.v.content.v.entries)

\* C17: when the upload fails fatally the request ends with a
\* success = false response that reports no import counts, and no storage
\* call is ever made: the error is raised before the insert loop.
C17_FatalBeforeInserts ==
    FatalUpload =>
        /\ calls = <<>>
        /\ pc \in {"request", "responded"}
        /\ pc = "responded" =>
              /\ ~response.success
              /\ DOMAIN response = {"status", "success", "message"}

\* a request that failed on an archive without a .dbf member
C17_Witness ==
    /\ FatalUpload
    /\ pc = "responded"
    /\ response.status = 500
    /\ response.message = NoDbf

-----------------------------------------------------------------------------
(* Order and accounting of the batch processor (Spec) *)

\* success[p] is the record the try block builds for feature idx, for some
\* value of the clock
IsRecordOf(record, idx) ==
    \E t \in 0..MaxClock :
        LET r == processFeature(route, features[idx + 1],
                                featureProperties(features[idx + 1]), idx, t)
        IN  ~r.threw /\ r.record = record

\* C18: processGeoJSON keeps input order and accounts for every feature
\* once: success holds the records of the features that did not fail, in
\* increasing input index; errors holds the failed features in increasing
\* index; errors is never longer than the number of input features.
C18_OrderAndAccounting ==
    /\ Len(success) + Len(errors) = i
    /\ Len(errors) <= Len(features)
    /\ \A n \in 1..Len(errors) :
          /\ errors[n].index \in 0..(i - 1)
          /\ errors[n].feature = features[errors[n].index + 1]
          /\ n > 1 => errors[n - 1].index < errors[n].index
    /\ \A p \in 1..Len(success) : IsRecordOf(success[p], SourceIndex(p))

\* a failed feature between two features whose records differ
C18_Witness ==
    /\ pc = "done"
    /\ Len(success) = 2
    /\ success[1] # success[2]
    /\ Len(errors) = 1
    /\ errors[1].index = 1

\* the kinds of malformed feature: null; no geometry, or a geometry without
\* coordinates; a Polygon with an empty coordinates array; properties that
\* are not an object
Malformed(f) ==
    \/ f.k = "null"
    \/ /\ f.k = "feature"
       /\ \/ f.v.geometry.k \in {"null", "undefined"}
          \/ /\ f.v.geometry.k = "geom"
             /\ \/ f.v.geometry.v.coordinates.k \in {"null", "undefined"}
                \/ /\ f.v.geometry.v.type = "Polygon"
                   /\ f.v.geometry.v.coordinates = Arr(<<>>)
          \/ f.v.properties.k \in {"str", "num", "bool", "arr"}

\* C19: every malformed feature of a batch yields exactly one error entry
\* and no record in the success list.
C19_MalformedIsAnError ==
    \A idx \in 0..(i - 1) :
        Malformed(features[idx + 1]) =>
            /\ Cardinality({n \in 1..Len(errors) : errors[n].index = idx}) = 1
            /\ Len(success) + Len(errors) = i


-----------------------------------------------------------------------------
(* Totality and purity of the Field Mapper (SpecMapper) *)

\* C20: mapFieldNames never throws and never changes its argument: for
\* every property bag of strings, numbers, booleans, arrays and null it
\* returns a record, and the bag has the same keys and values afterwards.
C20_NeverThrowsNorMutates ==
    /\ [](pc # "threw" /\ ~MapperThrew(mapped) /\ ~MapperThrew(remapped))
    /\ [][props' = props]_vars

\* a date field holding a text that is not a date was mapped, to null
C20_Witness ==
    /\ pc = "mapped"
    /\ \E n \in 1..Len(props) :
          /\ mappedKeyOf(props[n][1]) \in DateFields
          /\ props[n][2].k = "str"
          /\ props[n][2].v \notin {<<>>, <<"-">>}
          /\ ~NewDate(props[n][2]).valid
          /\ Get(mapped, mappedKeyOf(props[n][1])) = Null


-----------------------------------------------------------------------------
(* What storage is given (SpecPost) *)

\* C21: every record that is counted as imported was accepted by a storage
\* call that was given the record's fields and the text of its geometry.
C21_ImportedWithGeometry ==
    \A n \in 1..Len(calls) :
        calls[n].outcome = "ok" =>
            LET record == success[calls[n].record + 1]
            IN  /\ calls[n].args.parcel_data = insertData(record)
                /\ calls[n].args.geom_geojson =
                       stringify(Get(record, "geometry"))


-----------------------------------------------------------------------------
(* The order of identifiers (Spec) *)

\* the first non-empty of the mapped parcel_id, nib and hak, and the
\* generated identifier when all three are empty
ChosenIdentifier(properties, idx, t) ==
    IF Truthy(Get(properties, "parcel_id")) THEN Get(properties, "parcel_id")
    ELSE IF Truthy(Get(properties, "nib")) THEN Get(properties, "nib")
    ELSE IF Truthy(Get(properties, "hak")) THEN Get(properties, "hak")
    ELSE GeneratedId(t, idx)

\* C22: the identifier of a record is chosen in the order mapped parcel_id,
\* mapped nib, mapped hak, generated PARCEL_<timestamp>_<index> with the
\* feature's own index, and the record's parcel_id field is that identifier.
C22_IdentifierByPrecedence ==
    \A p \in 1..Len(success) :
        \E properties \in {featureProperties(features[SourceIndex(p) + 1])} :
            \E t \in 0..MaxClock :
                Get(success[p], "parcel_id") =
                    ChosenIdentifier(properties, SourceIndex(p), t)


-----------------------------------------------------------------------------
(* Other geometry types (SpecGeometry) *)

\* a geometry with coordinates whose type is neither Polygon nor
\* MultiPolygon
IsOtherType(g) ==
    /\ g.k = "geom"
    /\ Truthy(g.v.coordinates)
    /\ g.v.type \notin {"Polygon", "MultiPolygon"}

\* C23: for a geometry type other than Polygon and MultiPolygon,
\* normalizeGeometry returns the geometry it was given, unchanged and
\* without raising an error, so the batch processor produces a record
\* that carries it.
C23_OtherTypesReturnedUnchanged ==
    (pc # "start" /\ IsOtherType(geometry)) =>
        /\ pc \notin {"threw", "rethrew"}
        /\ normalized = geometry
        /\ LET r == processFeature("cadastral-data", Feat(Obj(<<>>), geometry),
                                   <<>>, 0, 0)
           IN  ~r.threw /\ Get(r.record, "geometry") = geometry

\* a LineString has been normalized
C23_Witness ==
    /\ pc = "normalized"
    /\ IsOtherType(geometry)
    /\ geometry.v.type = "LineString"
    /\ normalized = geometry


-----------------------------------------------------------------------------
(* Geographic input (SpecGeometry) *)

\* the first call classified its argument as geographic
Geographic == pc # "start" /\ coordSystem = "geographic"

\* C24: a geometry classified as geographic keeps its coordinates: a
\* MultiPolygon is returned as it is, and a Polygon with coordinates c is
\* returned as a MultiPolygon with coordinates [c].
C24_GeographicKeepsCoordinates ==
    Geographic =>
        /\ pc # "threw"
        /\ geometry.v.type = "MultiPolygon" => normalized = geometry
        /\ geometry.v.type = "Polygon" =>
              /\ normalized.v.type = "MultiPolygon"
              /\ normalized.v.coordinates.k = "arr"
              /\ normalized.v.coordinates.v = <<geometry.v.coordinates>>

\* a geographic Polygon of one ring has been returned as a MultiPolygon
C24_Witness ==
    /\ pc = "normalized"
    /\ coordSystem = "geographic"
    /\ geometry.v.type = "Polygon"
    /\ Len(geometry.v.coordinates.v) = 1
    /\ normalized.v.type = "MultiPolygon"
    /\ normalized.v.coordinates.v[1] = geometry.v.coordinates

\* C30: on input classified as geographic normalizeGeometry is idempotent,
\* a second call on the result returns a geometry equal to the result of
\* the first, and no call modifies its argument.
C30_IdempotentOnGeographic ==
    /\ [](Geographic =>
            /\ pc # "rethrew"
            /\ pc = "renormalized" => renormalized = normalized)
    /\ [][/\ geometry' = geometry
          /\ pc = "normalized" => normalized' = normalized]_vars

\* a geographic Polygon has been normalized twice
C30_Witness ==
    /\ pc = "renormalized"
    /\ coordSystem = "geographic"
    /\ geometry.v.type = "Polygon"
    /\ normalized # geometry
    /\ renormalized = normalized


-----------------------------------------------------------------------------
(* Projected input (SpecGeometry) *)

\* 99 + (easting - 500000) / (0.9996 * 111319.9)
LongitudeOf(easting) ==
    Quot(Num(FALSE, 99, 0), NumSub(easting, Num(FALSE, 500000, 0)),
         <<Num(FALSE, 9996, 4).v, Num(FALSE, 1113199, 1).v>>)

\* northing / 111319.9
LatitudeOf(northing) ==
    Quot(Num(FALSE, 0, 0), northing, <<Num(FALSE, 1113199, 1).v>>)

\* the polygons of a Polygon or MultiPolygon geometry, each an array of rings
PolygonsOf(g) ==
    IF g.v.type = "Polygon" THEN <<g.v.coordinates>> ELSE g.v.coordinates.v

\* C25: for a geometry classified as projected, every coordinate pair of
\* every ring of every polygon is converted with longitude = 99 + (easting
\* - 500000) / (0.9996 * 111319.9) and latitude = northing / 111319.9, and
\* the number and order of polygons, rings and points is kept.
C25_ProjectedConvertedPairwise ==
    (pc # "start" /\ coordSystem = "utm") =>
        LET in == PolygonsOf(geometry)
            out == normalized.v.coordinates.v
        IN  /\ normalized.v.type = "MultiPolygon"
            /\ Len(out) = Len(in)
            /\ \A a \in 1..Len(in) :
                  /\ Len(out[a].v) = Len(in[a].v)
                  /\ \A b \in 1..Len(in[a].v) :
                        /\ Len(out[a].v[b].v) = Len(in[a].v[b].v)
                        /\ \A c \in 1..Len(in[a].v[b].v) :
                              out[a].v[b].v[c] =
                                  Arr(<<LongitudeOf(in[a].v[b].v[c].v[1]),
                                        LatitudeOf(in[a].v[b].v[c].v[2])>>)

\* a projected MultiPolygon of two polygons has been converted
C25_Witness ==
    /\ pc = "normalized"
    /\ coordSystem = "utm"
    /\ geometry.v.type = "MultiPolygon"
    /\ Len(geometry.v.coordinates.v) = 2
    /\ Len(geometry.v.coordinates.v[1].v[1].v) >= 2
    /\ normalized.v.coordinates.v[1].v[1].v[1].v[1].k = "quot"


-----------------------------------------------------------------------------
(* The keys of the mapped object (SpecMapper) *)

\* the canonical name the table has for the key, or the key in lower case
ResolvedKey(key) ==
    IF key \in DOMAIN fieldMap THEN fieldMap[key] ELSE toLowerCase(key)

\* C26: the keys of the object mapFieldNames returns are exactly the keys
\* obtained by resolving each input key through the lookup table, or to its
\* lower-cased form when the table has no entry: none dropped, none added.
C26_KeysAreResolvedKeys ==
    pc \in {"mapped", "remapped"} =>
        Keys(mapped) = {ResolvedKey(props[n][1]) : n \in 1..Len(props)}


\* the positions of the input keys that end up in the field
KeysOf(field) == {n \in 1..Len(props) : mappedKeyOf(props[n][1]) = field}

\* the last of these positions
LastKeyOf(field) == CHOOSE n \in KeysOf(field) : \A q \in KeysOf(field) : q <= n

\* C29: when two or more input keys resolve to the same field, the value
\* mapFieldNames returns for the field is the coerced value of the key that
\* comes last in the key order of the input, also when that value is null
\* and an earlier key carried a value that is not.
C29_LastKeyWins ==
    pc = "mapped" =>
        \A field \in Keys(mapped) :
            Cardinality(KeysOf(field)) >= 2 =>
                Get(mapped, field) = coerce(field, props[LastKeyOf(field)][2])

\* PEMILIK carries a name, owner_name, the later key, an empty value
C29_Witness ==
    /\ pc = "mapped"
    /\ Len(props) = 2
    /\ props[1][1] = "PEMILIK"
    /\ props[2][1] = "owner_name"
    /\ coerce("pemilik", props[1][2]) # Null
    /\ coerce("pemilik", props[2][2]) = Null
    /\ Get(mapped, "pemilik") = Null


-----------------------------------------------------------------------------
(* Generated identifiers of two requests (SpecConcurrent) *)

\* an identifier of the form PARCEL_...
IsGenerated(id) ==
    /\ id.k = "str"
    /\ Len(id.v) > 7
    /\ SubSeq(id.v, 1, 7) = <<"P", "A", "R", "C", "E", "L", "_">>

\* the generated identifiers among the records of request r
GeneratedIdsOf(r) ==
    {Get(requests[r].success[p], "parcel_id") :
        p \in {q \in 1..Len(requests[r].success) :
                  IsGenerated(Get(requests[r].success[q], "parcel_id"))}}

\* C28: the generated identifiers of two requests that run at the same time
\* never coincide, also when both read the same clock value for features
\* of the same index.
C28_GeneratedIdsDisjoint ==
    \A r1 \in Requests : \A r2 \in Requests \ {r1} :
        GeneratedIdsOf(r1) \cap GeneratedIdsOf(r2) = {}


-----------------------------------------------------------------------------
(* Counts of an import response (SpecImports) *)

\* a response that reports counts has been sent
ReportsCounts == pc = "responded" /\ "total" \in DOMAIN response

\* C27: in every import response that reports counts, imported + failed =
\* total, and total is the number of features the handler went through:
\* each feature is counted once, as imported or as failed.
C27_ImportedPlusFailedIsTotal ==
    ReportsCounts =>
        /\ response.imported + response.failed = response.total
        /\ response.total = Len(features)
        /\ i = Len(features)

\* an upload of which one feature failed to map, one record was rejected by
\* storage and one was accepted
C27_Witness ==
    /\ ReportsCounts
    /\ route \in Routes
    /\ Len(errors) >= 1
    /\ Len(insertErrors) = 1
    /\ response.imported = 1

====

